---- MODULE Spec2Model ----
(***************************************************************************)
(* Orion voice assistant (src/voice_assistant.py): the persisted stopwatch *)
(* (StopwatchManager) and the timer subsystem (SchedulerWrapper,           *)
(* TimerManager, TimerManagerFallback) as state machines.                  *)
(*                                                                         *)
(* Time is the wall clock time.time(), counted in whole seconds in `now`.  *)
(* Each subsystem has its own specification; the variables of the other    *)
(* subsystems stay at their initial values in it.                          *)
(***************************************************************************)
EXTENDS Integers, Sequences, FiniteSets, TLC

\* ---------------------------------------------------------------- bounds
MaxTime == 3
\* number of stopwatch calls made in one run of SpecSW / SpecSWConc
MaxSwOps == 4
\* number of rounds of concurrent stopwatch calls in one run of SpecSWConc
MaxRounds == 2
\* number of set_timer calls in one run of the timer specifications
MaxCalls == 2
\* number of process restarts in one run of SpecTMRestart
MaxRestarts == 1
\* number of get_response calls made by a single caller in one run of SpecAI
MaxAiCalls == 7
\* the clock of set_alarm is read in parts of a second: that many per second
TicksPerSecond == 2
\* set_alarm is called that many ticks before or after its target
Near == 4
\* number of chat sessions ever created
MaxSessions == 3
\* number of requests sent to the web server
MaxRequests == 2
\* number of words of an utterance given to the evaluator
MaxTerms == 4
\* number of words of an utterance given to recognize_command
MaxWords == 3
\* number of utterances handled in one run of SpecDP
MaxDispatch == 2
\* number of queries answered one at a time before two threads call
\* get_response together in SpecAIConc
PriorCalls == 5

\* a plausible slip: one attempt more
attempts_mistaken == 2 + 1

\* GroqAIHandler.get_response: attempts = 2
attempts == 2
\* GroqAIHandler.get_response: the context is cut to its last 12 messages
ContextLimit == 12

\* the durations, in seconds, that set_timer is called with
Durations == {1, 2}

\* Python's None, for StopwatchManager.start_time (an epoch otherwise)
None == -1

VARIABLES
    now,        \* time.time(), whole seconds
    \* --- StopwatchManager (one process) and its snapshot file
    sw,         \* [running, start_time, elapsed_time]: the object's fields
    swFile,     \* stopwatch_state.json: [kind, data]
    swRet,      \* what the last stopwatch call returned: [op, val]
    swOps,      \* stopwatch calls made so far (bounds the run)
    swFaults,   \* history: TRUE once a snapshot write has raised
    swIntervals,\* history: the seconds run in each interval started since the last reset
    \* --- the stopwatch called from two threads (SpecSWConc)
    swPc,       \* per caller: the line of start/stop/reset it is at
    swCall,     \* per caller: the call it makes in this round
    swRes,      \* per caller: [st, val], how its call ended
    swData,     \* per caller: the dict _persist_state has built
    swBegin     \* [s, t]: the stopwatch state and the time when the round began

VARIABLES
    \* --- SchedulerWrapper and the APScheduler job store (a SQLite file)
    schedAvail, \* SchedulerWrapper.available in the running process
    jobstore,   \* the jobs in orion_scheduler_jobs.sqlite: [id, run_at, t_id, name]
    \* --- TimerManager
    tmCounter,  \* TimerManager.counter
    tmTimers,   \* TimerManager.timers: t_id -> [type, job_id, fallback_id, name, run_at]
    \* --- TimerManagerFallback
    fbCounter,  \* TimerManagerFallback.counter
    fbTimers,   \* TimerManagerFallback.timers: tid -> [name, duration, start_time]
    fbThreads,  \* the live _thread_worker threads: [tid, name, wake, pc]
    \* --- what the callers and the user observe
    notified,   \* label -> [n, at, kind, run]: the TimerManager._notify calls for it
    tmRet,      \* the last TimerManager call: [op, id, val, pending, again]
    tmList,     \* what the last list_timers() returned
    \* --- history
    calls,      \* set_timer calls so far; call number k passes the label k
    issued,     \* label -> [t_id, kind, fire, run]: what set_timer returned for it
    cancelled,  \* labels of the timers for which cancel_timer returned True
    jobIds,     \* the job ids set_timer has generated, in order
    missed,     \* labels of durable jobs whose fire time passed with no scheduler running
    carried,    \* labels of durable jobs that a restart found in the store, not yet due
    run         \* number of the running process (restarts so far)

VARIABLES
    \* --- set_timer called from two threads (SpecTMConc)
    stPc,       \* per caller: the line of set_timer it is at
    stLoc       \* per caller: its locals [duration, name, t_id, job_id, loaded, tid]

VARIABLES
    \* --- GroqAIHandler
    aiClient,   \* self.client is not None
    aiContext,  \* self.conversation_context: a list of [role, content]
    aiCalls,    \* queries passed to get_response so far; query number k has content k
    aiServed,   \* queries answered so far (history)
    aiRet,      \* the last get_response call made by a single caller
    \* --- get_response called from two threads (SpecAIConc)
    aiPc,       \* per caller: the line of get_response it is at
    aiLoc       \* per caller: [query, attempt, remote, okAt, slice, ret]

VARIABLES
    \* --- the Dispatcher: VoiceAssistant.execute_command, WebVoiceAssistant.process_command
    dpIn,       \* the last utterance and what its handling met
    dpOut,      \* what handling it did: [spoken, ai, local, response, raised]
    dpCount,    \* utterances handled so far (bounds the run)
    \* --- the process: VoiceAssistant flags, handle_exit, terminate
    va,         \* [is_listening, keep_running, wake_word_listening, scheduler, alive]
    vaHist,     \* history: what was pending when exit was commanded
    \* --- the Classifier: VoiceAssistant.recognize_command
    rcNlp,      \* self.nlp is loaded
    rcHeard,    \* the utterance, word by word
    rcOut,      \* what recognize_command returned for it, or "none"
    \* --- TimerManager.set_alarm
    alIn,       \* the last call: [now, target], or NoAlarm
    alOut,      \* what it handed to set_timer: [duration, run_at]
    \* --- the Expression Evaluator
    evHeard,    \* the utterance, word by word
    evOut,      \* what evaluating it did, or NoEval
    \* --- the utterance 'terminate assistant'
    vaSaid,     \* [heard, intent]: it was received, and classified so
    \* --- WebVoiceAssistant.process_command and the timer notification
    wsSpeak,    \* assistant.speak: the method, or request r's capture_speak
    wsReq,      \* per request: [pc, intent, original_speak, response]
    wsResponses,\* per request: the list its capture_speak appends to
    wsSpoken,   \* the texts VoiceAssistant.speak has said aloud
    wsTimers,   \* timers set through the web and not fired yet
    wsFired,    \* timer notifications delivered so far
    \* --- the chat_sessions table and the requests on it
    csUsers,    \* per user: "none", "committed" (the row exists), "registered"
    csSessions, \* the rows of chat_sessions: [id, user_id]
    csCounter,  \* session ids handed out so far
    csReq       \* per worker: [pc, op, user, sid, status] of its request

swVars == <<sw, swFile, swRet, swOps, swFaults>>
swhVars == <<swIntervals>>
swcVars == <<swPc, swCall, swRes, swData, swBegin>>
tmVars == <<schedAvail, jobstore, tmCounter, tmTimers, fbCounter, fbTimers, fbThreads,
            notified, tmRet, tmList, calls, issued, cancelled, jobIds, missed, carried, run>>
stcVars == <<stPc, stLoc>>
aiVars == <<aiClient, aiContext, aiCalls, aiServed, aiRet, aiPc, aiLoc>>
dpVars == <<dpIn, dpOut, dpCount>>
vaVars == <<va, vaHist>>
rcVars == <<rcNlp, rcHeard, rcOut>>
alVars == <<alIn, alOut>>
evVars == <<evHeard, evOut>>
saVars == <<vaSaid>>
wsVars == <<wsSpeak, wsReq, wsResponses, wsSpoken, wsTimers, wsFired>>
csVars == <<csUsers, csSessions, csCounter, csReq>>
\* the variables of the parts that take no part in the timers, the stopwatch,
\* the AI handler, the dispatcher or exit
extVars == <<rcVars, alVars, evVars, saVars, wsVars, csVars>>
vars == <<now, swVars, swhVars, swcVars, tmVars, stcVars, aiVars, dpVars, vaVars, extVars>>
baseVars == <<now, swVars, swhVars, swcVars, tmVars, stcVars, aiVars, dpVars, vaVars>>
notAl == <<baseVars, rcVars, evVars, saVars, wsVars, csVars>>
notEv == <<baseVars, rcVars, alVars, saVars, wsVars, csVars>>
notSa == <<baseVars, rcVars, alVars, evVars, wsVars, csVars>>
notWs == <<baseVars, rcVars, alVars, evVars, saVars, csVars>>
notCs == <<baseVars, rcVars, alVars, evVars, saVars, wsVars>>
notRc == <<baseVars, alVars, evVars, saVars, wsVars, csVars>>
\* what the stopwatch actions leave alone, and what the timer actions do
notSw == <<tmVars, stcVars, aiVars, dpVars, vaVars, extVars>>
notTm == <<swVars, swhVars, swcVars, stcVars, aiVars, dpVars, vaVars, extVars>>
notAi == <<now, swVars, swhVars, swcVars, tmVars, stcVars, dpVars, vaVars, extVars>>
notDp == <<now, swVars, swhVars, swcVars, tmVars, stcVars, vaVars, extVars>>
notVa == <<swVars, swhVars, swcVars, stcVars, aiVars, dpVars, extVars>>

\* ------------------------------------------------------------ JSON file
\* A file is absent, holds a JSON document, or holds a truncated one
\* (open(path, "w") truncates before json.dump writes).
NoFile == [kind |-> "absent", data |-> [running |-> FALSE, start_time |-> None, elapsed_time |-> 0]]

Truncated == [kind |-> "truncated", data |-> NoFile.data]

\* How one open()+json.dump() can end: written; open() raised (file left as
\* it was); json.dump raised after open() truncated the file.
WriteOutcomes == {"written", "open_failed", "dump_failed"}

\* safe_json_write(path, data): the exception is logged and swallowed.
safe_json_write(file, data, outcome) ==
    CASE outcome = "written"     -> [kind |-> "json", data |-> data]
      [] outcome = "open_failed" -> file
      [] outcome = "dump_failed" -> Truncated

\* safe_json_read(path, default=None): the document, or "default" when the
\* file is absent or json.load raises.
safe_json_read(file) ==
    IF file.kind = "json" THEN [found |-> TRUE, data |-> file.data]
    ELSE [found |-> FALSE, data |-> NoFile.data]

\* ------------------------------------------------------ StopwatchManager
\* StopwatchManager.__init__ before _load_state
SwFresh == [running |-> FALSE, start_time |-> None, elapsed_time |-> 0]

\* a plausible slip: the snapshot is not read when the object is built
_load_state_ignored(file, t) == SwFresh

\* StopwatchManager._load_state: fields from the snapshot; when it was
\* running, elapsed_time is recomputed from the anchor (and not persisted).
\* Python truthiness: "if self.running and self.start_time" is false for
\* start_time None and for start_time 0.
_load_state(file, t) ==
    LET r == safe_json_read(file) IN
    IF ~r.found THEN SwFresh
    ELSE IF r.data.running /\ r.data.start_time # None /\ r.data.start_time # 0
         THEN [r.data EXCEPT !.elapsed_time = t - r.data.start_time]
         ELSE r.data

\* StopwatchManager._persist_state
_persist_state(file, s, outcome) ==
    safe_json_write(file, [running |-> s.running, start_time |-> s.start_time,
                           elapsed_time |-> s.elapsed_time], outcome)

\* a plausible slip: every start anchors at the current time
start_state_from_zero(s, t) ==
    IF ~s.running
    THEN [running |-> TRUE, start_time |-> t, elapsed_time |-> s.elapsed_time]
    ELSE s

\* StopwatchManager.start: the state after the call (unchanged when running)
start_state(s, t) ==
    IF ~s.running
    THEN [running |-> TRUE,
          start_time |-> IF s.start_time = None THEN t ELSE t - s.elapsed_time,
          elapsed_time |-> s.elapsed_time]
    ELSE s

\* a plausible slip: stop recomputes elapsed_time whether running or not
stop_state_recomputes(s, t) ==
    [running |-> FALSE, start_time |-> s.start_time, elapsed_time |-> t - s.start_time]

\* StopwatchManager.stop: the state after the call
stop_state(s, t) ==
    IF s.running
    THEN [running |-> FALSE, start_time |-> s.start_time,
          elapsed_time |-> t - s.start_time]
    ELSE s

\* StopwatchManager.get_time
get_time(s, t) == IF s.running THEN t - s.start_time ELSE s.elapsed_time

\* The threads that run commands: main()'s loop and listen_for_wake_words
Callers == {"main", "wake"}

NoRes == [st |-> "none", val |-> 0]

\* One call of StopwatchManager.start()
StopwatchManager_start ==
    /\ swOps < MaxSwOps
    /\ \E outcome \in WriteOutcomes :
         /\ sw' = start_state(sw, now)
         /\ swFile' = IF ~sw.running THEN _persist_state(swFile, sw', outcome) ELSE swFile
         /\ swFaults' = (swFaults \/ (~sw.running /\ outcome # "written"))
         /\ swRet' = [op |-> "start", val |-> IF ~sw.running THEN 1 ELSE 0]
    /\ swIntervals' = IF ~sw.running THEN Append(swIntervals, 0) ELSE swIntervals
    /\ swOps' = swOps + 1
    /\ UNCHANGED <<now, swcVars, notSw>>

\* One call of StopwatchManager.stop()
StopwatchManager_stop ==
    /\ swOps < MaxSwOps
    /\ \E outcome \in WriteOutcomes :
         /\ sw' = stop_state(sw, now)
         /\ swFile' = IF sw.running THEN _persist_state(swFile, sw', outcome) ELSE swFile
         /\ swFaults' = (swFaults \/ (sw.running /\ outcome # "written"))
         /\ swRet' = [op |-> "stop", val |-> sw'.elapsed_time]
    /\ swOps' = swOps + 1
    /\ UNCHANGED <<now, swhVars, swcVars, notSw>>

\* One call of StopwatchManager.reset()
StopwatchManager_reset ==
    /\ swOps < MaxSwOps
    /\ \E outcome \in WriteOutcomes :
         /\ sw' = SwFresh
         /\ swFile' = _persist_state(swFile, sw', outcome)
         /\ swFaults' = (swFaults \/ outcome # "written")
         /\ swRet' = [op |-> "reset", val |-> 0]
    /\ swIntervals' = <<>>
    /\ swOps' = swOps + 1
    /\ UNCHANGED <<now, swcVars, notSw>>

\* One call of StopwatchManager.get_time()
StopwatchManager_get_time ==
    /\ swOps < MaxSwOps
    /\ swRet' = [op |-> "get_time", val |-> get_time(sw, now)]
    /\ swOps' = swOps + 1
    /\ UNCHANGED <<now, sw, swFile, swFaults, swhVars, swcVars, notSw>>

\* The process ends and a new one constructs StopwatchManager:
\* __init__ sets the defaults and calls _load_state.
StopwatchManager_init ==
    /\ swOps < MaxSwOps
    /\ sw' = _load_state(swFile, now)
    /\ swRet' = [op |-> "init", val |-> 0]
    /\ swOps' = swOps + 1
    /\ UNCHANGED <<now, swFile, swFaults, swhVars, swcVars, notSw>>

\* The wall clock advances one second.
Tick ==
    /\ now < MaxTime
    /\ now' = now + 1

\* a second passes; the history counts it when the stopwatch is running
SwTick ==
    /\ Tick
    /\ swIntervals' = IF sw.running /\ swIntervals # <<>>
                      THEN [swIntervals EXCEPT ![Len(swIntervals)] = @ + 1]
                      ELSE swIntervals
    /\ UNCHANGED <<swVars, swcVars, notSw>>

\* ------------------------------------------------------------ dict helpers
\* del d[k]
DictDel(d, k) == [x \in DOMAIN d \ {k} |-> d[x]]

\* d[k] = v
DictPut(d, k, v) == [x \in DOMAIN d \cup {k} |-> IF x = k THEN v ELSE d[x]]

EmptyDict == [x \in {} |-> 0]

\* the keys of a dict in insertion order; both timer dicts are filled under
\* counters that only grow, so insertion order is ascending key order
RECURSIVE KeysAsc(_)
KeysAsc(K) ==
    IF K = {} THEN <<>>
    ELSE LET k == CHOOSE x \in K : \A y \in K : x <= y
         IN <<k>> \o KeysAsc(K \ {k})

\* ------------------------------------------------ SchedulerWrapper / store
NoJobId == <<0, 0>>

\* job_id = f"timer_{t_id}_{int(time.time())}": the two numbers, which the
\* string determines and is determined by
JobId(t_id, t) == <<t_id, t>>

StoreIds(store) == {j.id : j \in store}

\* SchedulerWrapper.add_date_job: raises when the scheduler is unavailable,
\* when the store fails (storeOk false) and when the store already holds a
\* job of that id (add_job without replace_existing)
add_date_job_ok(avail, store, id, storeOk) ==
    avail /\ storeOk /\ id \notin StoreIds(store)

\* --------------------------------------------------- TimerManagerFallback
\* a plausible slip: the worker sleeps one second whatever the duration
TimerManagerFallback_set_timer_fixed_sleep(counter, timers, duration, name, t) ==
    LET tid == counter + 1 IN
    [counter |-> tid,
     timers |-> DictPut(timers, tid, [name |-> name, duration |-> duration, start_time |-> t]),
     thread |-> [tid |-> tid, name |-> name, wake |-> t + 1, pc |-> "sleep"],
     tid |-> tid]

\* TimerManagerFallback.set_timer: [counter, timers, thread, tid]
TimerManagerFallback_set_timer(counter, timers, duration, name, t) ==
    LET tid == counter + 1 IN
    [counter |-> tid,
     timers |-> DictPut(timers, tid, [name |-> name, duration |-> duration, start_time |-> t]),
     thread |-> [tid |-> tid, name |-> name, wake |-> t + duration, pc |-> "sleep"],
     tid |-> tid]

\* TimerManagerFallback.cancel_timer: [ret, timers]
TimerManagerFallback_cancel_timer(timers, tid) ==
    IF tid \in DOMAIN timers
    THEN [ret |-> TRUE, timers |-> DictDel(timers, tid)]
    ELSE [ret |-> FALSE, timers |-> timers]

RECURSIVE FbEntries(_, _, _)
FbEntries(keys, timers, t) ==
    IF keys = <<>> THEN <<>>
    ELSE LET tid == Head(keys)
             e == timers[tid]
         IN <<[id |-> tid, name |-> e.name,
               remaining |-> e.duration - (t - e.start_time)]>>
            \o FbEntries(Tail(keys), timers, t)

\* TimerManagerFallback.list_timers
TimerManagerFallback_list_timers(timers, t) ==
    FbEntries(KeysAsc(DOMAIN timers), timers, t)

\* ------------------------------------------------------------ TimerManager
ApsMeta(job_id, name, run_at) ==
    [type |-> "aps", job_id |-> job_id, fallback_id |-> 0, name |-> name, run_at |-> run_at]

FallbackMeta(fid, name) ==
    [type |-> "fallback", job_id |-> NoJobId, fallback_id |-> fid, name |-> name, run_at |-> 0]

\* TimerManager.set_timer, one caller at a time:
\* [counter, timers, store, fb, thread, t_id, kind, job_id]
\* (run_at is kept as run_at.isoformat(), which fromisoformat reads back to
\* the same datetime: the stored value is the fire time itself)
TimerManager_set_timer(duration, name, storeOk) ==
    LET t_id == tmCounter + 1
        job_id == JobId(t_id, now)
        run_at == now + duration
        tried == schedAvail
        aps == add_date_job_ok(schedAvail, jobstore, job_id, storeOk)
        fb == TimerManagerFallback_set_timer(fbCounter, fbTimers, duration, name, now)
    IN IF aps
       THEN [counter |-> t_id,
             timers |-> DictPut(tmTimers, t_id, ApsMeta(job_id, name, run_at)),
             store |-> jobstore \cup {[id |-> job_id, run_at |-> run_at, t_id |-> t_id, name |-> name]},
             fbCounter |-> fbCounter, fbTimers |-> fbTimers, threads |-> fbThreads,
             t_id |-> t_id, kind |-> "aps", tried |-> tried, job_id |-> job_id]
       ELSE [counter |-> t_id,
             timers |-> DictPut(tmTimers, t_id, FallbackMeta(fb.tid, name)),
             store |-> jobstore,
             fbCounter |-> fb.counter, fbTimers |-> fb.timers,
             threads |-> fbThreads \cup {fb.thread},
             t_id |-> t_id, kind |-> "fallback", tried |-> tried, job_id |-> job_id]

\* a plausible slip: the fallback's answer is ignored and the mapping kept
TimerManager_cancel_timer_keeps(timers, fb, store, avail, t_id) ==
    IF t_id \notin DOMAIN timers
    THEN [ret |-> FALSE, timers |-> timers, fb |-> fb, store |-> store]
    ELSE IF timers[t_id].type = "aps"
    THEN IF avail /\ timers[t_id].job_id \notin StoreIds(store)
         THEN [ret |-> FALSE, timers |-> timers, fb |-> fb, store |-> store]
         ELSE [ret |-> TRUE, timers |-> DictDel(timers, t_id), fb |-> fb,
               store |-> IF avail THEN {j \in store : j.id # timers[t_id].job_id} ELSE store]
    ELSE [ret |-> TRUE, timers |-> timers, fb |-> fb, store |-> store]

\* TimerManager.cancel_timer: [ret, timers, fb, store]
\* (scheduler.remove_job raises JobLookupError for a job the store lacks)
TimerManager_cancel_timer(timers, fb, store, avail, t_id) ==
    IF t_id \notin DOMAIN timers
    THEN [ret |-> FALSE, timers |-> timers, fb |-> fb, store |-> store]
    ELSE IF timers[t_id].type = "aps"
    THEN IF avail /\ timers[t_id].job_id \notin StoreIds(store)
         THEN [ret |-> FALSE, timers |-> timers, fb |-> fb, store |-> store]
         ELSE [ret |-> TRUE, timers |-> DictDel(timers, t_id), fb |-> fb,
               store |-> IF avail THEN {j \in store : j.id # timers[t_id].job_id} ELSE store]
    ELSE LET c == TimerManagerFallback_cancel_timer(fb, timers[t_id].fallback_id)
         IN IF c.ret
            THEN [ret |-> TRUE, timers |-> DictDel(timers, t_id), fb |-> c.timers, store |-> store]
            ELSE [ret |-> FALSE, timers |-> timers, fb |-> c.timers, store |-> store]

RECURSIVE TmEntries(_, _, _, _)
TmEntries(keys, timers, fb, t) ==
    IF keys = <<>> THEN <<>>
    ELSE LET t_id == Head(keys)
             meta == timers[t_id]
             here == IF meta.type = "aps"
                     THEN IF meta.run_at - t > 0
                          THEN <<[id |-> t_id, name |-> meta.name, remaining |-> meta.run_at - t]>>
                          ELSE <<>>
                     ELSE TimerManagerFallback_list_timers(fb, t)
         IN here \o TmEntries(Tail(keys), timers, fb, t)

\* TimerManager.list_timers
TimerManager_list_timers(timers, fb, t) ==
    TmEntries(KeysAsc(DOMAIN timers), timers, fb, t)

\* --- history, read by the properties only
\* the labels whose timer is pending in the running process: returned by
\* set_timer in this run, not cancelled, notification not yet delivered
Fired(label) == label \in DOMAIN notified

PendingLabels ==
    {l \in DOMAIN issued : issued[l].run = run /\ l \notin cancelled /\ ~Fired(l)}

LabelsOf(t_id) == {l \in DOMAIN issued : issued[l].run = run /\ issued[l].t_id = t_id}

NoRet == [op |-> "init", id |-> 0, val |-> FALSE, known |-> FALSE, pending |-> FALSE, again |-> FALSE]

\* One call of TimerManager.set_timer(duration, name) from a single caller.
TM_set_timer ==
    /\ calls < MaxCalls
    /\ \E duration \in Durations, storeOk \in BOOLEAN :
         LET name == calls + 1
             r == TimerManager_set_timer(duration, name, storeOk)
         IN /\ tmCounter' = r.counter
            /\ tmTimers' = r.timers
            /\ jobstore' = r.store
            /\ fbCounter' = r.fbCounter
            /\ fbTimers' = r.fbTimers
            /\ fbThreads' = r.threads
            /\ tmRet' = [NoRet EXCEPT !.op = "set_timer", !.id = r.t_id, !.val = TRUE]
            /\ issued' = DictPut(issued, name, [t_id |-> r.t_id, kind |-> r.kind,
                                                fire |-> now + duration, run |-> run])
            /\ jobIds' = IF r.tried THEN Append(jobIds, r.job_id) ELSE jobIds
    /\ calls' = calls + 1
    /\ tmList' = <<>>
    /\ UNCHANGED <<now, schedAvail, notified, cancelled, missed, carried, run, notTm>>

\* One call of TimerManager.cancel_timer(t_id).
TM_cancel_timer ==
    /\ \E t_id \in 1..MaxCalls :
         LET c == TimerManager_cancel_timer(tmTimers, fbTimers, jobstore, schedAvail, t_id)
         IN /\ tmTimers' = c.timers
            /\ fbTimers' = c.fb
            /\ jobstore' = c.store
            /\ tmRet' = [op |-> "cancel", id |-> t_id, val |-> c.ret,
                         known |-> LabelsOf(t_id) # {},
                         pending |-> LabelsOf(t_id) \cap PendingLabels # {},
                         again |-> LabelsOf(t_id) \cap cancelled # {}]
            /\ cancelled' = IF c.ret THEN cancelled \cup {tmTimers[t_id].name} ELSE cancelled
    /\ tmList' = <<>>
    /\ UNCHANGED <<now, schedAvail, tmCounter, fbCounter, fbThreads, notified,
                   calls, issued, jobIds, missed, carried, run, notTm>>

\* One call of TimerManager.list_timers().
TM_list_timers ==
    /\ tmList' = TimerManager_list_timers(tmTimers, fbTimers, now)
    /\ tmRet' = [NoRet EXCEPT !.op = "list"]
    /\ UNCHANGED <<now, schedAvail, jobstore, tmCounter, tmTimers, fbCounter, fbTimers,
                   fbThreads, notified, calls, issued, cancelled, jobIds, missed, carried, run, notTm>>

\* TimerManager._notify(message): counted per label; the toast or the
\* speech may fail, which _notify logs and swallows, so that a failed call
\* leaves the same state as one that worked.
Notify(name, kind, failed) ==
    notified' = DictPut(notified, name,
                        [n |-> IF name \in DOMAIN notified THEN notified[name].n + 1 ELSE 1,
                         at |-> now, kind |-> kind, run |-> run])

\* a return value is read in the state the call leaves; the next step of
\* any thread clears the record of it
Unobserved == tmRet' = NoRet /\ tmList' = <<>>

\* The scheduler runs a due job: the date job leaves the store and
\* TimerManager._scheduler_job_wrapper(t_id, name) notifies, then drops the
\* mapping of t_id if there is one.
TimerManager_scheduler_job_wrapper ==
    /\ schedAvail
    /\ \E j \in jobstore :
         /\ j.run_at <= now
         /\ jobstore' = jobstore \ {j}
         /\ \E failed \in BOOLEAN : Notify(j.name, "aps", failed)
         /\ tmTimers' = IF j.t_id \in DOMAIN tmTimers THEN DictDel(tmTimers, j.t_id) ELSE tmTimers
    /\ Unobserved
    /\ UNCHANGED <<now, schedAvail, tmCounter, fbCounter, fbTimers, fbThreads,
                   calls, issued, cancelled, jobIds, missed, carried, run, notTm>>

ThreadAt(th, pc) == (fbThreads \ {th}) \cup {[th EXCEPT !.pc = pc]}

\* TimerManagerFallback._thread_worker, lines 241-242: the sleep ends and
\* the thread looks its tid up; it ends when the tid is gone.
FB_thread_worker_wake ==
    /\ \E th \in fbThreads :
         /\ th.pc = "sleep"
         /\ th.wake <= now
         /\ fbThreads' = IF th.tid \in DOMAIN fbTimers THEN ThreadAt(th, "notify")
                         ELSE fbThreads \ {th}
    /\ Unobserved
    /\ UNCHANGED <<now, schedAvail, jobstore, tmCounter, tmTimers, fbCounter, fbTimers,
                   notified, calls, issued, cancelled, jobIds, missed, carried, run, notTm>>

\* lines 243-247: self.notify(message), which speaks for a while
FB_thread_worker_notify ==
    /\ \E th \in fbThreads :
         /\ th.pc = "notify"
         /\ \E failed \in BOOLEAN : Notify(th.name, "fallback", failed)
         /\ fbThreads' = ThreadAt(th, "del")
    /\ Unobserved
    /\ UNCHANGED <<now, schedAvail, jobstore, tmCounter, tmTimers, fbCounter, fbTimers,
                   calls, issued, cancelled, jobIds, missed, carried, run, notTm>>

\* line 248: del self.timers[tid] (a KeyError ends the thread when the tid
\* was cancelled meanwhile); the thread is over either way
FB_thread_worker_del ==
    /\ \E th \in fbThreads :
         /\ th.pc = "del"
         /\ fbTimers' = IF th.tid \in DOMAIN fbTimers THEN DictDel(fbTimers, th.tid) ELSE fbTimers
         /\ fbThreads' = fbThreads \ {th}
    /\ Unobserved
    /\ UNCHANGED <<now, schedAvail, jobstore, tmCounter, tmTimers, fbCounter,
                   notified, calls, issued, cancelled, jobIds, missed, carried, run, notTm>>

\* A second passes. The scheduler and the sleeping threads wake on time: the
\* clock does not pass a fire time that a running scheduler or a sleeping
\* thread has yet to act on. A job whose fire time passes while no scheduler
\* runs is recorded as missed.
TmTick ==
    /\ ~(schedAvail /\ \E j \in jobstore : j.run_at <= now)
    /\ ~(\E th \in fbThreads : th.pc = "notify" \/ (th.pc = "sleep" /\ th.wake <= now))
    /\ Tick
    /\ missed' = missed \cup {j.name : j \in {x \in jobstore : x.run_at <= now}}
    /\ Unobserved
    /\ UNCHANGED <<schedAvail, jobstore, tmCounter, tmTimers, fbCounter, fbTimers, fbThreads,
                   notified, calls, issued, cancelled, jobIds, carried, run, notTm>>

\* a plausible slip: a job store kept in memory (APScheduler's default)
JobsAfterRestart_memory(store) == {}

\* SchedulerWrapper.__init__, lines 191-193: the job store is the SQLite
\* file, which a new process opens with the jobs the last one left
JobsAfterRestart(store) == store

\* The process ends and a new one starts: VoiceAssistant.__init__ builds a
\* SchedulerWrapper (available or not), a TimerManager and its fallback; the
\* daemon threads of the old process are gone.
TM_restart ==
    /\ run < MaxRestarts
    /\ run' = run + 1
    /\ schedAvail' \in BOOLEAN
    /\ jobstore' = JobsAfterRestart(jobstore)
    /\ tmCounter' = 0
    /\ tmTimers' = EmptyDict
    /\ fbCounter' = 0
    /\ fbTimers' = EmptyDict
    /\ fbThreads' = {}
    /\ tmRet' = NoRet
    /\ tmList' = <<>>
    /\ carried' = carried \cup {j.name : j \in {x \in jobstore : x.run_at > now}}
    /\ UNCHANGED <<now, notified, calls, issued, cancelled, jobIds, missed, notTm>>

InitTm ==
    /\ schedAvail \in BOOLEAN
    /\ jobstore = {}
    /\ tmCounter = 0
    /\ tmTimers = EmptyDict
    /\ fbCounter = 0
    /\ fbTimers = EmptyDict
    /\ fbThreads = {}
    /\ notified = EmptyDict
    /\ tmRet = NoRet
    /\ tmList = <<>>
    /\ calls = 0
    /\ issued = EmptyDict
    /\ cancelled = {}
    /\ jobIds = <<>>
    /\ missed = {}
    /\ carried = {}
    /\ run = 0

NextTM ==
    \/ TM_set_timer
    \/ TM_cancel_timer
    \/ TM_list_timers
    \/ TimerManager_scheduler_job_wrapper
    \/ FB_thread_worker_wake
    \/ FB_thread_worker_notify
    \/ FB_thread_worker_del
    \/ TmTick

InitSw ==
    /\ sw = SwFresh
    /\ swFile = NoFile
    /\ swRet = [op |-> "init", val |-> 0]
    /\ swOps = 0
    /\ swFaults = FALSE
    /\ swIntervals = <<>>
    /\ swPc = [c \in Callers |-> "idle"]
    /\ swCall = [c \in Callers |-> "none"]
    /\ swRes = [c \in Callers |-> NoRes]
    /\ swData = [c \in Callers |-> SwFresh]
    /\ swBegin = [s |-> SwFresh, t |-> 1]

NoLoc == [duration |-> 0, name |-> 0, t_id |-> 0, job_id |-> NoJobId, loaded |-> 0, tid |-> 0]

InitStc ==
    /\ stPc = [c \in Callers |-> "idle"]
    /\ stLoc = [c \in Callers |-> NoLoc]

NoAiRet == [op |-> "init", query |-> 0, outcomes |-> <<>>, ret |-> <<"none", 0>>, remote |-> 0]

NoAiLoc == [query |-> 0, attempt |-> 0, remote |-> 0, okAt |-> 0, slice |-> <<>>,
            ret |-> <<"none", 0>>]

\* GroqAIHandler.__init__ with an API key and the SDK present
InitAi ==
    /\ aiClient = TRUE
    /\ aiContext = <<>>
    /\ aiCalls = 0
    /\ aiServed = {}
    /\ aiRet = NoAiRet
    /\ aiPc = [c \in Callers |-> "idle"]
    /\ aiLoc = [c \in Callers |-> NoAiLoc]

\* a message, spoken or returned: its kind and, for an AI reply, the query
Msg(kind) == <<kind, 0>>

NoResponse == [success |-> FALSE, message |-> Msg("none"), intent |-> "none"]

NoUtterance == [path |-> "none", backend |-> TRUE, intent |-> "none", math |-> FALSE,
                value |-> FALSE, canned |-> FALSE, handler |-> "ok", outcomes |-> <<>>]

NoHandling == [spoken |-> <<>>, ai |-> 0, local |-> "none", response |-> NoResponse,
               raised |-> FALSE]

InitDp ==
    /\ dpIn = NoUtterance
    /\ dpOut = NoHandling
    /\ dpCount = 0

\* VoiceAssistant.__init__, lines 500-501, 523 and 551
VaFresh(available) ==
    [is_listening |-> TRUE, keep_running |-> TRUE, wake_word_listening |-> TRUE,
     scheduler |-> IF available THEN "running" ELSE "none", alive |-> TRUE]

NoExit == [exited |-> FALSE, at |-> 0, labels |-> {}, terminated |-> FALSE]

InitVa ==
    /\ va = VaFresh(schedAvail)
    /\ vaHist = NoExit

\* no utterance heard yet; spaCy as VoiceAssistant.__init__ leaves it before
\* the load of line 516
InitRc ==
    /\ rcNlp = FALSE
    /\ rcHeard = <<>>
    /\ rcOut = "none"

InitEv ==
    /\ evHeard = <<>>
    /\ evOut = [variant |-> "none", handed |-> <<>>, evaluated |-> FALSE, env |-> {},
                ret |-> [ok |-> FALSE, v |-> [n |-> 0, d |-> 1, fl |-> FALSE, beyond |-> TRUE],
                         tuple |-> FALSE],
                raised |-> FALSE]

NoAlarm == [now |-> 0, target |-> 0]

InitAl ==
    /\ alIn = NoAlarm
    /\ alOut = [duration |-> 0, run_at |-> 0]

InitSa == vaSaid = [heard |-> FALSE, intent |-> "none"]

InitWs ==
    /\ wsSpeak = <<"speak">>
    /\ wsReq = [r \in 1 .. MaxRequests |-> [pc |-> "idle", intent |-> "none",
                                           original_speak |-> <<"speak">>,
                                           response |-> << >>]]
    /\ wsResponses = [r \in 1 .. MaxRequests |-> << >>]
    /\ wsSpoken = {}
    /\ wsTimers = 0
    /\ wsFired = 0

InitCs ==
    /\ csUsers = [u \in {"alice", "bob"} |-> "none"]
    /\ csSessions = {}
    /\ csCounter = 0
    /\ csReq = [w \in {"w1", "w2"} |->
                   [pc |-> "idle", op |-> "none", user |-> "none", sid |-> 0,
                    status |-> 0]]

InitExt ==
    /\ InitCs
    /\ InitWs
    /\ InitRc
    /\ InitAl
    /\ InitEv
    /\ InitSa

Init ==
    /\ now = 1
    /\ InitSw
    /\ InitTm
    /\ InitStc
    /\ InitAi
    /\ InitDp
    /\ InitVa
    /\ InitExt

NextSW ==
    \/ StopwatchManager_start
    \/ StopwatchManager_stop
    \/ StopwatchManager_reset
    \/ StopwatchManager_get_time
    \/ StopwatchManager_init
    \/ SwTick

\* The stopwatch called by one caller at a time, across restarts.
SpecSW == Init /\ [][NextSW]_vars

\* The timers of one process: calls from one caller at a time, the
\* scheduler's job runs and the fallback threads.
SpecTM == Init /\ [][NextTM]_vars

\* The timers across restarts of the process.
SpecTMRestart == Init /\ [][NextTM \/ TM_restart]_vars

\* ------------------------------------- the stopwatch called concurrently
\* StopwatchManager holds no lock: start/stop/reset run line by line, and the
\* other caller's lines may run in between. A round begins with both callers
\* making one call each from the state swBegin; the clock stands still
\* within a round (the calls take far less than a second).
SwCalls == {"start", "stop", "reset"}

FirstLine(call) ==
    CASE call = "start" -> "start_426"
      [] call = "stop"  -> "stop_438"
      [] call = "reset" -> "reset_446"

SwcBegin ==
    /\ swOps < MaxRounds
    /\ \A c \in Callers : swPc[c] \in {"idle", "done"}
    /\ \E chosen \in [Callers -> SwCalls] :
         /\ swCall' = chosen
         /\ swPc' = [c \in Callers |-> FirstLine(chosen[c])]
    /\ swRes' = [c \in Callers |-> NoRes]
    /\ swBegin' = [s |-> sw, t |-> now]
    /\ swOps' = swOps + 1
    /\ UNCHANGED <<now, sw, swFile, swRet, swFaults, swData, swhVars, notSw>>

SwcGoto(c, line) == swPc' = [swPc EXCEPT ![c] = line]

SwcReturn(c, st, val) ==
    /\ swPc' = [swPc EXCEPT ![c] = "done"]
    /\ swRes' = [swRes EXCEPT ![c] = [st |-> st, val |-> val]]

\* line 426: if not self.running ... else (line 435) return False
Swc_start_426(c) ==
    /\ swPc[c] = "start_426"
    /\ IF ~sw.running
       THEN SwcGoto(c, "start_427") /\ UNCHANGED swRes
       ELSE SwcReturn(c, "ok", 0)
    /\ UNCHANGED <<now, swVars, swCall, swData, swBegin, swhVars, notSw>>

\* lines 427-431: self.start_time = time.time() [- self.elapsed_time]
Swc_start_427(c) ==
    /\ swPc[c] = "start_427"
    /\ sw' = [sw EXCEPT !.start_time =
                 IF sw.start_time = None THEN now ELSE now - sw.elapsed_time]
    /\ SwcGoto(c, "start_432")
    /\ UNCHANGED <<now, swFile, swRet, swOps, swFaults, swCall, swRes, swData, swBegin, swhVars, notSw>>

\* line 432: self.running = True
Swc_start_432(c) ==
    /\ swPc[c] = "start_432"
    /\ sw' = [sw EXCEPT !.running = TRUE]
    /\ SwcGoto(c, "start_433")
    /\ UNCHANGED <<now, swFile, swRet, swOps, swFaults, swCall, swRes, swData, swBegin, swhVars, notSw>>

\* line 439: self.elapsed_time = time.time() - self.start_time, a TypeError
\* when start_time is None
Swc_stop_439(c) ==
    /\ swPc[c] = "stop_439"
    /\ IF sw.start_time = None
       THEN SwcReturn(c, "error", 0) /\ UNCHANGED sw
       ELSE /\ sw' = [sw EXCEPT !.elapsed_time = now - sw.start_time]
            /\ SwcGoto(c, "stop_440")
            /\ UNCHANGED swRes
    /\ UNCHANGED <<now, swFile, swRet, swOps, swFaults, swCall, swData, swBegin, swhVars, notSw>>

\* line 438: if self.running ... else (line 443) return self.elapsed_time
Swc_stop_438(c) ==
    /\ swPc[c] = "stop_438"
    /\ IF sw.running
       THEN SwcGoto(c, "stop_439") /\ UNCHANGED swRes
       ELSE SwcReturn(c, "ok", sw.elapsed_time)
    /\ UNCHANGED <<now, swVars, swCall, swData, swBegin, swhVars, notSw>>

\* line 440: self.running = False
Swc_stop_440(c) ==
    /\ swPc[c] = "stop_440"
    /\ sw' = [sw EXCEPT !.running = FALSE]
    /\ SwcGoto(c, "stop_441")
    /\ UNCHANGED <<now, swFile, swRet, swOps, swFaults, swCall, swRes, swData, swBegin, swhVars, notSw>>

\* line 442: return self.elapsed_time
Swc_stop_442(c) ==
    /\ swPc[c] = "stop_442"
    /\ SwcReturn(c, "ok", sw.elapsed_time)
    /\ UNCHANGED <<now, swVars, swCall, swData, swBegin, swhVars, notSw>>

\* line 446: self.start_time = None
Swc_reset_446(c) ==
    /\ swPc[c] = "reset_446"
    /\ sw' = [sw EXCEPT !.start_time = None]
    /\ SwcGoto(c, "reset_447")
    /\ UNCHANGED <<now, swFile, swRet, swOps, swFaults, swCall, swRes, swData, swBegin, swhVars, notSw>>

\* line 447: self.elapsed_time = 0.0
Swc_reset_447(c) ==
    /\ swPc[c] = "reset_447"
    /\ sw' = [sw EXCEPT !.elapsed_time = 0]
    /\ SwcGoto(c, "reset_448")
    /\ UNCHANGED <<now, swFile, swRet, swOps, swFaults, swCall, swRes, swData, swBegin, swhVars, notSw>>

\* line 448: self.running = False
Swc_reset_448(c) ==
    /\ swPc[c] = "reset_448"
    /\ sw' = [sw EXCEPT !.running = FALSE]
    /\ SwcGoto(c, "reset_449")
    /\ UNCHANGED <<now, swFile, swRet, swOps, swFaults, swCall, swRes, swData, swBegin, swhVars, notSw>>

\* line 422 (from lines 433, 441, 449): _persist_state reads the three fields
Swc_persist_422(c) ==
    /\ swPc[c] \in {"start_433", "stop_441", "reset_449"}
    /\ swData' = [swData EXCEPT ![c] = sw]
    /\ SwcGoto(c, CASE swCall[c] = "start" -> "start_423"
                    [] swCall[c] = "stop"  -> "stop_423"
                    [] swCall[c] = "reset" -> "reset_423")
    /\ UNCHANGED <<now, swVars, swCall, swRes, swBegin, swhVars, notSw>>

\* line 423: safe_json_write, then start returns True (434), reset returns
\* (449), stop goes on to line 442
Swc_persist_423(c) ==
    /\ swPc[c] \in {"start_423", "stop_423", "reset_423"}
    /\ \E outcome \in WriteOutcomes :
         /\ swFile' = safe_json_write(swFile, swData[c], outcome)
         /\ swFaults' = (swFaults \/ outcome # "written")
    /\ CASE swCall[c] = "start" -> SwcReturn(c, "ok", 1)
         [] swCall[c] = "stop"  -> SwcGoto(c, "stop_442") /\ UNCHANGED swRes
         [] swCall[c] = "reset" -> SwcReturn(c, "ok", 0)
    /\ UNCHANGED <<now, sw, swRet, swOps, swCall, swData, swBegin, swhVars, notSw>>

\* Between rounds the clock advances.
SwcTick ==
    /\ \A c \in Callers : swPc[c] \in {"idle", "done"}
    /\ Tick
    /\ UNCHANGED <<swVars, swcVars, swhVars, notSw>>

NextSWConc ==
    \/ SwcBegin
    \/ \E c \in Callers : Swc_start_426(c)
    \/ \E c \in Callers : Swc_start_427(c)
    \/ \E c \in Callers : Swc_start_432(c)
    \/ \E c \in Callers : Swc_stop_438(c)
    \/ \E c \in Callers : Swc_stop_439(c)
    \/ \E c \in Callers : Swc_stop_440(c)
    \/ \E c \in Callers : Swc_stop_442(c)
    \/ \E c \in Callers : Swc_reset_446(c)
    \/ \E c \in Callers : Swc_reset_447(c)
    \/ \E c \in Callers : Swc_reset_448(c)
    \/ \E c \in Callers : Swc_persist_422(c)
    \/ \E c \in Callers : Swc_persist_423(c)
    \/ SwcTick

\* The stopwatch called from the command loop and the wake-word thread.
SpecSWConc == Init /\ [][NextSWConc]_vars

\* What one call returns and leaves behind when nothing runs in between.
SeqCall(call, s, t) ==
    CASE call = "start" -> [state |-> start_state(s, t), val |-> IF s.running THEN 0 ELSE 1]
      [] call = "stop"  -> [state |-> stop_state(s, t), val |-> stop_state(s, t).elapsed_time]
      [] call = "reset" -> [state |-> SwFresh, val |-> 0]

\* The round's outcome equals that of running first's call, then second's.
SeqOrder(first, second) ==
    LET a == SeqCall(swCall[first], swBegin.s, swBegin.t)
        b == SeqCall(swCall[second], a.state, swBegin.t)
    IN /\ swRes[first] = [st |-> "ok", val |-> a.val]
       /\ swRes[second] = [st |-> "ok", val |-> b.val]
       /\ sw = b.state

RoundOver == \A c \in Callers : swPc[c] = "done"

\* C2: concurrent start()/stop()/reset() calls appear atomic: when a round
\* of concurrent calls is over, no call has ended in an error, and the state
\* and the return values are those of one of the sequential orders of the
\* calls (so two start() calls from Stopped give exactly one success).
C2_ConcurrentCallsAtomic ==
    RoundOver =>
        /\ \A c \in Callers : swRes[c].st = "ok"
        /\ SeqOrder("main", "wake") \/ SeqOrder("wake", "main")

\* ------------------------------------------- set_timer called concurrently
\* TimerManager.set_timer and the TimerManagerFallback.set_timer it calls,
\* statement by statement, each caller (the command loop, the wake-word
\* thread) making one call.  Lines 298-300 run under TimerManager.lock and are
\* one step; nothing else in either method takes a lock.  `self.counter += 1`
\* (line 225) is a read and a write of the attribute, and another thread may
\* run between them.
StcGoto(c, line) == stPc' = [stPc EXCEPT ![c] = line]

StcLocals(c, loc) == stLoc' = [stLoc EXCEPT ![c] = loc]

\* the variables no step of set_timer touches
stcRest == <<now, schedAvail, notified, tmRet, tmList, cancelled, missed, carried, run,
             swVars, swhVars, swcVars, aiVars, dpVars, vaVars, extVars>>

\* the call is made: set_timer(duration, name)
Stc_call(c) ==
    /\ stPc[c] = "idle"
    /\ \E duration \in Durations :
         StcLocals(c, [NoLoc EXCEPT !.duration = duration, !.name = calls + 1])
    /\ calls' = calls + 1
    /\ StcGoto(c, "298")
    /\ UNCHANGED <<jobstore, tmCounter, tmTimers, fbCounter, fbTimers, fbThreads,
                   issued, jobIds, stcRest>>

\* with self.lock: self.counter += 1; t_id = self.counter
Stc_set_timer_298(c) ==
    /\ stPc[c] = "298"
    /\ tmCounter' = tmCounter + 1
    /\ StcLocals(c, [stLoc[c] EXCEPT !.t_id = tmCounter + 1])
    /\ StcGoto(c, "305")
    /\ UNCHANGED <<jobstore, tmTimers, fbCounter, fbTimers, fbThreads,
                   calls, issued, jobIds, stcRest>>

\* if self.scheduler and self.scheduler.available:
Stc_set_timer_305(c) ==
    /\ stPc[c] = "305"
    /\ StcGoto(c, IF schedAvail THEN "308" ELSE "225")
    /\ UNCHANGED <<jobstore, tmCounter, tmTimers, fbCounter, fbTimers, fbThreads,
                   calls, issued, jobIds, stLoc, stcRest>>

\* job_id = f"timer_{t_id}_{int(time.time())}"; add_date_job(...), which may raise
Stc_set_timer_308(c) ==
    /\ stPc[c] = "308"
    /\ LET job_id == JobId(stLoc[c].t_id, now) IN
       /\ StcLocals(c, [stLoc[c] EXCEPT !.job_id = job_id])
       /\ jobIds' = Append(jobIds, job_id)
       /\ \E storeOk \in BOOLEAN :
            IF add_date_job_ok(schedAvail, jobstore, job_id, storeOk)
            THEN /\ jobstore' = jobstore \cup
                        {[id |-> job_id, run_at |-> now + stLoc[c].duration,
                          t_id |-> stLoc[c].t_id, name |-> stLoc[c].name]}
                 /\ StcGoto(c, "310")
            ELSE /\ jobstore' = jobstore
                 /\ StcGoto(c, "225")
    /\ UNCHANGED <<tmCounter, tmTimers, fbCounter, fbTimers, fbThreads,
                   calls, issued, stcRest>>

\* self.timers[t_id] = {"type": "aps", ...}; return t_id
Stc_set_timer_310(c) ==
    /\ stPc[c] = "310"
    /\ tmTimers' = DictPut(tmTimers, stLoc[c].t_id,
                           ApsMeta(stLoc[c].job_id, stLoc[c].name, now + stLoc[c].duration))
    /\ issued' = DictPut(issued, stLoc[c].name,
                         [t_id |-> stLoc[c].t_id, kind |-> "aps",
                          fire |-> now + stLoc[c].duration, run |-> run])
    /\ StcGoto(c, "done")
    /\ UNCHANGED <<jobstore, tmCounter, fbCounter, fbTimers, fbThreads,
                   calls, jobIds, stLoc, stcRest>>

\* fallback line 225, the read of self.counter
Stc_fallback_225_load(c) ==
    /\ stPc[c] = "225"
    /\ StcLocals(c, [stLoc[c] EXCEPT !.loaded = fbCounter])
    /\ StcGoto(c, "225w")
    /\ UNCHANGED <<jobstore, tmCounter, tmTimers, fbCounter, fbTimers, fbThreads,
                   calls, issued, jobIds, stcRest>>

\* fallback line 225, the write of self.counter
Stc_fallback_225_store(c) ==
    /\ stPc[c] = "225w"
    /\ fbCounter' = stLoc[c].loaded + 1
    /\ StcGoto(c, "226")
    /\ UNCHANGED <<jobstore, tmCounter, tmTimers, fbTimers, fbThreads,
                   calls, issued, jobIds, stLoc, stcRest>>

\* tid = self.counter
Stc_fallback_226(c) ==
    /\ stPc[c] = "226"
    /\ StcLocals(c, [stLoc[c] EXCEPT !.tid = fbCounter])
    /\ StcGoto(c, "230")
    /\ UNCHANGED <<jobstore, tmCounter, tmTimers, fbCounter, fbTimers, fbThreads,
                   calls, issued, jobIds, stcRest>>

\* self.timers[tid] = {"name": ..., "duration": ..., "start_time": time.time(), ...}
Stc_fallback_230(c) ==
    /\ stPc[c] = "230"
    /\ fbTimers' = DictPut(fbTimers, stLoc[c].tid,
                           [name |-> stLoc[c].name, duration |-> stLoc[c].duration,
                            start_time |-> now])
    /\ StcGoto(c, "236")
    /\ UNCHANGED <<jobstore, tmCounter, tmTimers, fbCounter, fbThreads,
                   calls, issued, jobIds, stLoc, stcRest>>

\* thread.start(); return tid
Stc_fallback_236(c) ==
    /\ stPc[c] = "236"
    /\ fbThreads' = fbThreads \cup
            {[tid |-> stLoc[c].tid, name |-> stLoc[c].name,
              wake |-> now + stLoc[c].duration, pc |-> "sleep"]}
    /\ StcGoto(c, "318")
    /\ UNCHANGED <<jobstore, tmCounter, tmTimers, fbCounter, fbTimers,
                   calls, issued, jobIds, stLoc, stcRest>>

\* self.timers[t_id] = {"type": "fallback", "fallback_id": fallback_id, ...}; return t_id
Stc_set_timer_318(c) ==
    /\ stPc[c] = "318"
    /\ tmTimers' = DictPut(tmTimers, stLoc[c].t_id, FallbackMeta(stLoc[c].tid, stLoc[c].name))
    /\ issued' = DictPut(issued, stLoc[c].name,
                         [t_id |-> stLoc[c].t_id, kind |-> "fallback",
                          fire |-> now + stLoc[c].duration, run |-> run])
    /\ StcGoto(c, "done")
    /\ UNCHANGED <<jobstore, tmCounter, fbCounter, fbTimers, fbThreads,
                   calls, jobIds, stLoc, stcRest>>

NextTMConc ==
    \E c \in Callers :
        \/ Stc_call(c)
        \/ Stc_set_timer_298(c)
        \/ Stc_set_timer_305(c)
        \/ Stc_set_timer_308(c)
        \/ Stc_set_timer_310(c)
        \/ Stc_fallback_225_load(c)
        \/ Stc_fallback_225_store(c)
        \/ Stc_fallback_226(c)
        \/ Stc_fallback_230(c)
        \/ Stc_fallback_236(c)
        \/ Stc_set_timer_318(c)

\* Two threads each call set_timer once, within one second of the clock.
SpecTMConc == Init /\ [][NextTMConc]_vars

\* the callers whose call has returned
StcDone == {c \in Callers : stPc[c] = "done"}

\* the timer a TimerId refers to: the job or the fallback entry behind it
StcBacking(t_id) ==
    LET meta == tmTimers[t_id] IN
    IF meta.type = "aps"
    THEN {j.name : j \in {x \in jobstore : x.id = meta.job_id}}
    ELSE IF meta.fallback_id \in DOMAIN fbTimers
         THEN {fbTimers[meta.fallback_id].name}
         ELSE {}

\* C3: for every interleaving of concurrent set_timer calls, on the durable
\* and on the fallback path, the calls that have returned hold distinct
\* TimerIds, and each TimerId refers to the one timer its own call created.
C3_TimerIdAllocationAtomic ==
    /\ \A c, d \in StcDone : c # d => stLoc[c].t_id # stLoc[d].t_id
    /\ \A c \in StcDone :
         /\ stLoc[c].t_id \in DOMAIN tmTimers
         /\ StcBacking(stLoc[c].t_id) = {stLoc[c].name}

\* ----------------------------------------------------------- GroqAIHandler
\* How one pass through the try block (lines 143-167) can end: the reply is
\* read; chat.completions.create raises; the reply has no usable content and
\* line 161 raises.  Both exceptions are caught at line 168.
AttemptOutcomes == {"ok", "create_raises", "bad_response"}

UserMsg(query) == [role |-> "user", content |-> query]

\* the reply to query k is known by k
AssistantMsg(query) == [role |-> "assistant", content |-> query]

\* q[-n:]
LastN(q, n) == IF Len(q) <= n THEN q ELSE SubSeq(q, Len(q) - n + 1, Len(q))

\* lines 163-166: the pair is appended, then the context cut to its last 12
UpdateContext(ctx, query) ==
    LET more == ctx \o <<UserMsg(query), AssistantMsg(query)>>
    IN IF Len(more) > ContextLimit THEN LastN(more, ContextLimit) ELSE more

Unavailable == <<"unavailable", 0>>

Apology == <<"apology", 0>>

Answer(query) == <<"answer", query>>

\* a plausible slip: the context is never cut
RECURSIVE TryFrom_uncut(_, _, _, _)
TryFrom_uncut(attempt, ctx, query, outcomes) ==
    IF attempt >= attempts
    THEN [ret |-> Apology, context |-> ctx, remote |-> attempt]
    ELSE IF outcomes[attempt + 1] = "ok"
         THEN [ret |-> Answer(query),
               context |-> ctx \o <<UserMsg(query), AssistantMsg(query)>>,
               remote |-> attempt + 1]
         ELSE TryFrom_uncut(attempt + 1, ctx, query, outcomes)

\* the loop of lines 142-172 from pass number `attempt` on:
\* [ret, context, remote], remote the calls of chat.completions.create made
RECURSIVE TryFrom(_, _, _, _)
TryFrom(attempt, ctx, query, outcomes) ==
    IF attempt >= attempts
    THEN [ret |-> Apology, context |-> ctx, remote |-> attempt]
    ELSE IF outcomes[attempt + 1] = "ok"
         THEN [ret |-> Answer(query), context |-> UpdateContext(ctx, query),
               remote |-> attempt + 1]
         ELSE TryFrom(attempt + 1, ctx, query, outcomes)

\* GroqAIHandler.get_response(query)
get_response(client, ctx, query, outcomes) ==
    IF ~client
    THEN [ret |-> Unavailable, context |-> ctx, remote |-> 0]
    ELSE TryFrom(0, ctx, query, outcomes)

AiIdle == \A c \in Callers : aiPc[c] = "idle"

\* One call of get_response by a single caller, the passes ending as
\* `outcomes` says.
AI_get_response_with(outcomes) ==
    /\ AiIdle
    /\ LET query == aiCalls + 1
           r == get_response(aiClient, aiContext, query, outcomes)
       IN /\ aiContext' = r.context
          /\ aiRet' = [op |-> "get_response", query |-> query, outcomes |-> outcomes,
                       ret |-> r.ret, remote |-> r.remote]
          /\ aiServed' = IF r.ret[1] = "answer" THEN aiServed \cup {query} ELSE aiServed
    /\ aiCalls' = aiCalls + 1
    /\ UNCHANGED <<aiClient, aiPc, aiLoc, notAi>>

AI_get_response ==
    /\ aiCalls < MaxAiCalls
    /\ \E outcomes \in [1..attempts -> AttemptOutcomes] : AI_get_response_with(outcomes)

\* A new process builds its GroqAIHandler (lines 106-130): no client when the
\* API key or the SDK is missing or Groq() raises; the context starts empty.
GroqAIHandler_init ==
    /\ AiIdle
    /\ aiClient' \in BOOLEAN
    /\ aiContext' = <<>>
    /\ aiServed' = {}
    /\ aiRet' = NoAiRet
    /\ UNCHANGED <<aiCalls, aiPc, aiLoc, notAi>>

NextAI ==
    \/ AI_get_response
    \/ GroqAIHandler_init

\* get_response called by one caller at a time, across restarts.
SpecAI == Init /\ [][NextAI]_vars

\* ---------------------------------------- get_response called concurrently
\* get_response statement by statement, each caller (the command loop, the
\* wake-word thread) making one call; GroqAIHandler takes no lock.  Before the
\* two calls, up to PriorCalls queries are answered one at a time.
AicGoto(c, line) == aiPc' = [aiPc EXCEPT ![c] = line]

AicLocals(c, loc) == aiLoc' = [aiLoc EXCEPT ![c] = loc]

AicNotStarted == AiIdle /\ \A c \in Callers : aiLoc[c].query = 0

\* an earlier query, answered at the first attempt
Aic_prior ==
    /\ AicNotStarted
    /\ aiCalls < PriorCalls
    /\ AI_get_response_with([i \in 1..attempts |-> "ok"])

\* the process was started anew before the two calls
Aic_init == AicNotStarted /\ GroqAIHandler_init

\* the call is made: get_response(query)
Aic_call(c) ==
    /\ aiPc[c] = "idle"
    /\ aiLoc[c].query = 0
    /\ AicLocals(c, [NoAiLoc EXCEPT !.query = aiCalls + 1])
    /\ aiCalls' = aiCalls + 1
    /\ AicGoto(c, "136")
    /\ UNCHANGED <<aiClient, aiContext, aiServed, aiRet, notAi>>

\* if not self.client: return "Groq AI is not available. ..."
Aic_get_response_136(c) ==
    /\ aiPc[c] = "136"
    /\ IF aiClient
       THEN AicGoto(c, "142") /\ UNCHANGED aiLoc
       ELSE AicGoto(c, "done") /\ AicLocals(c, [aiLoc[c] EXCEPT !.ret = Unavailable])
    /\ UNCHANGED <<aiClient, aiContext, aiCalls, aiServed, aiRet, notAi>>

\* for attempt in range(attempts):
Aic_get_response_142(c) ==
    /\ aiPc[c] = "142"
    /\ AicGoto(c, IF aiLoc[c].attempt < attempts THEN "155" ELSE "172")
    /\ UNCHANGED <<aiClient, aiContext, aiCalls, aiServed, aiRet, aiLoc, notAi>>

\* lines 144-161: the messages are built from a copy of the context, the
\* remote service is called and the reply read
Aic_get_response_155(c) ==
    /\ aiPc[c] = "155"
    /\ \E outcome \in AttemptOutcomes :
         IF outcome = "ok"
         THEN /\ AicLocals(c, [aiLoc[c] EXCEPT !.remote = @ + 1, !.okAt = aiLoc[c].remote + 1])
              /\ AicGoto(c, "163")
         ELSE /\ AicLocals(c, [aiLoc[c] EXCEPT !.remote = @ + 1])
              /\ AicGoto(c, "169")
    /\ UNCHANGED <<aiClient, aiContext, aiCalls, aiServed, aiRet, notAi>>

\* self.conversation_context.append({"role": "user", "content": query})
Aic_get_response_163(c) ==
    /\ aiPc[c] = "163"
    /\ aiContext' = Append(aiContext, UserMsg(aiLoc[c].query))
    /\ AicGoto(c, "164")
    /\ UNCHANGED <<aiClient, aiCalls, aiServed, aiRet, aiLoc, notAi>>

\* self.conversation_context.append({"role": "assistant", "content": ai_response})
Aic_get_response_164(c) ==
    /\ aiPc[c] = "164"
    /\ aiContext' = Append(aiContext, AssistantMsg(aiLoc[c].query))
    /\ AicGoto(c, "165")
    /\ UNCHANGED <<aiClient, aiCalls, aiServed, aiRet, aiLoc, notAi>>

\* if len(self.conversation_context) > 12:
Aic_get_response_165(c) ==
    /\ aiPc[c] = "165"
    /\ AicGoto(c, IF Len(aiContext) > ContextLimit THEN "166" ELSE "167")
    /\ UNCHANGED <<aiClient, aiContext, aiCalls, aiServed, aiRet, aiLoc, notAi>>

\* line 166, the right-hand side: self.conversation_context[-12:]
Aic_get_response_166_slice(c) ==
    /\ aiPc[c] = "166"
    /\ AicLocals(c, [aiLoc[c] EXCEPT !.slice = LastN(aiContext, ContextLimit)])
    /\ AicGoto(c, "166w")
    /\ UNCHANGED <<aiClient, aiContext, aiCalls, aiServed, aiRet, notAi>>

\* line 166, the assignment to self.conversation_context
Aic_get_response_166_store(c) ==
    /\ aiPc[c] = "166w"
    /\ aiContext' = aiLoc[c].slice
    /\ AicGoto(c, "167")
    /\ UNCHANGED <<aiClient, aiCalls, aiServed, aiRet, aiLoc, notAi>>

\* return ai_response
Aic_get_response_167(c) ==
    /\ aiPc[c] = "167"
    /\ AicLocals(c, [aiLoc[c] EXCEPT !.ret = Answer(aiLoc[c].query)])
    /\ aiServed' = aiServed \cup {aiLoc[c].query}
    /\ AicGoto(c, "done")
    /\ UNCHANGED <<aiClient, aiContext, aiCalls, aiRet, notAi>>

\* except Exception: the error is logged, time.sleep(0.7), next pass
Aic_get_response_169(c) ==
    /\ aiPc[c] = "169"
    /\ AicLocals(c, [aiLoc[c] EXCEPT !.attempt = @ + 1])
    /\ AicGoto(c, "142")
    /\ UNCHANGED <<aiClient, aiContext, aiCalls, aiServed, aiRet, notAi>>

\* return "I'm having trouble reaching Groq right now - please try again"
Aic_get_response_172(c) ==
    /\ aiPc[c] = "172"
    /\ AicLocals(c, [aiLoc[c] EXCEPT !.ret = Apology])
    /\ AicGoto(c, "done")
    /\ UNCHANGED <<aiClient, aiContext, aiCalls, aiServed, aiRet, notAi>>

AicStep(c) ==
    \/ Aic_call(c)
    \/ Aic_get_response_136(c)
    \/ Aic_get_response_142(c)
    \/ Aic_get_response_155(c)
    \/ Aic_get_response_163(c)
    \/ Aic_get_response_164(c)
    \/ Aic_get_response_165(c)
    \/ Aic_get_response_166_slice(c)
    \/ Aic_get_response_166_store(c)
    \/ Aic_get_response_167(c)
    \/ Aic_get_response_169(c)
    \/ Aic_get_response_172(c)

NextAIConc ==
    \/ Aic_prior
    \/ Aic_init
    \/ \E c \in Callers : AicStep(c)

SpecAIConc == Init /\ [][NextAIConc]_vars

\* a thread that is inside get_response keeps being scheduled
SpecAIFair == SpecAIConc /\ \A c \in Callers : WF_vars(AicStep(c) /\ aiPc[c] # "idle")

\* ------------------------------------------------------------- Dispatcher
\* VoiceAssistant.built_in_domains (lines 535-538)
built_in_domains == {"time", "date", "weather", "timer", "alarm", "stopwatch",
                     "app", "calculate", "system", "greeting", "help", "exit"}

\* what recognize_command can return: the keys of _setup_command_patterns
\* (lines 714-749, 'search' among them) and "unknown"
Intents == built_in_domains \cup {"search", "unknown"}

\* An utterance, by what the code asks of it: the intent recognize_command
\* gives it, whether _looks_like_math holds, whether _evaluate_math_expression
\* finds a value, whether a key of hardcoded_map occurs in it.
Utterances ==
    {u \in [intent : Intents, math : BOOLEAN, value : BOOLEAN, canned : BOOLEAN] :
        u.value => (u.math \/ u.intent = "calculate")}

\* how a built-in handler can end; no handler runs for the other intents
HandlerEnds(intent) ==
    IF intent \in built_in_domains THEN {"ok", "raises"} ELSE {"ok"}

\* what the remote service does at each attempt, when it can be asked at all
RemoteOutcomes(intent) ==
    IF intent \in built_in_domains THEN {[i \in 1..attempts |-> "ok"]}
    ELSE [1..attempts -> AttemptOutcomes]

\* VoiceAssistant._handle_local_fallbacks: [handled, spoken, local]
_handle_local_fallbacks(u) ==
    IF u.math
    THEN IF u.value
         THEN [handled |-> TRUE, spoken |-> <<Msg("result")>>, local |-> "math"]
         ELSE [handled |-> TRUE, spoken |-> <<Msg("cannot_evaluate")>>, local |-> "math_failed"]
    ELSE IF u.canned
         THEN [handled |-> TRUE, spoken |-> <<Msg("canned")>>, local |-> "canned"]
         ELSE [handled |-> FALSE, spoken |-> <<>>, local |-> "none"]

\* VoiceAssistant.handle_groq_query: [spoken, context, asked], asked the
\* calls of get_response made
handle_groq_query(client, ctx, query, outcomes) ==
    IF ~client
    THEN [spoken |-> <<Msg("cannot_reach")>>, context |-> ctx, asked |-> 0,
          ret |-> Unavailable]
    ELSE LET r == get_response(client, ctx, query, outcomes)
         IN [spoken |-> <<r.ret>>, context |-> r.context, asked |-> 1, ret |-> r.ret]

\* VoiceAssistant.execute_command(command, original_query):
\* [spoken, ai, asked, local, context, ret, raised]; ai counts the calls of
\* handle_groq_query.  A built-in handler ends normally or raises; what it
\* does to the timers and the stopwatch is in the specifications of those.
execute_command(u, handler, client, ctx, query, outcomes) ==
    IF u.intent \in built_in_domains
    THEN [spoken |-> IF handler = "ok" THEN <<Msg("handled")>>
                     ELSE <<Msg("error_executing")>>,
          ai |-> 0, asked |-> 0, local |-> "none", context |-> ctx, ret |-> Msg("none"),
          raised |-> FALSE]
    ELSE LET f == _handle_local_fallbacks(u) IN
         IF f.handled
         THEN [spoken |-> f.spoken, ai |-> 0, asked |-> 0, local |-> f.local,
               context |-> ctx, ret |-> Msg("none"), raised |-> FALSE]
         ELSE LET g == handle_groq_query(client, ctx, query, outcomes)
              IN [spoken |-> g.spoken, ai |-> 1, asked |-> g.asked, local |-> "none",
                  context |-> g.context, ret |-> g.ret, raised |-> FALSE]

\* WebVoiceAssistant._process_local_command: always a success response
_process_local_command == [success |-> TRUE, message |-> Msg("local"), intent |-> "local"]

\* WebVoiceAssistant.process_command(command): [response, ai, asked, local,
\* context, ret, raised]; ai counts the calls of get_response made directly
process_command(backend, u, handler, client, ctx, query, outcomes) ==
    IF ~backend
    THEN [response |-> _process_local_command, ai |-> 0, asked |-> 0, local |-> "none",
          context |-> ctx, ret |-> Msg("none"), raised |-> FALSE]
    ELSE IF u.intent \in built_in_domains
    THEN LET e == execute_command(u, handler, client, ctx, query, outcomes)
         IN IF e.raised
            THEN [response |-> [success |-> FALSE, message |-> Msg("sorry"), intent |-> "error"],
                  ai |-> e.ai, asked |-> e.asked, local |-> e.local, context |-> e.context,
                  ret |-> e.ret, raised |-> FALSE]
            ELSE [response |-> [success |-> TRUE,
                                message |-> IF e.spoken # <<>> THEN e.spoken[1]
                                            ELSE Msg("command_processed"),
                                intent |-> u.intent],
                  ai |-> e.ai, asked |-> e.asked, local |-> e.local, context |-> e.context,
                  ret |-> e.ret, raised |-> FALSE]
    ELSE IF u.intent = "unknown"
    THEN LET r == get_response(client, ctx, query, outcomes)
         IN [response |-> [success |-> TRUE, message |-> r.ret, intent |-> "ai_response"],
             ai |-> 1, asked |-> 1, local |-> "none", context |-> r.context, ret |-> r.ret,
             raised |-> FALSE]
    ELSE [response |-> _process_local_command, ai |-> 0, asked |-> 0, local |-> "none",
          context |-> ctx, ret |-> Msg("none"), raised |-> FALSE]

\* what a handled utterance does to the GroqAIHandler
DpAiEffect(asked, context, ret, query) ==
    /\ aiContext' = context
    /\ aiCalls' = aiCalls + asked
    /\ aiServed' = IF ret = Answer(query) THEN aiServed \cup {query} ELSE aiServed
    /\ UNCHANGED <<aiClient, aiRet, aiPc, aiLoc>>

\* main(), lines 1319-1320, and listen_for_wake_words, lines 673-674:
\* an utterance is recognized and execute_command runs on it
VA_execute_command ==
    /\ dpCount < MaxDispatch
    /\ \E u \in Utterances :
       \E handler \in HandlerEnds(u.intent), outcomes \in RemoteOutcomes(u.intent) :
         LET query == aiCalls + 1
             e == execute_command(u, handler, aiClient, aiContext, query, outcomes)
         IN /\ dpIn' = [path |-> "voice", backend |-> TRUE, intent |-> u.intent,
                        math |-> u.math, value |-> u.value, canned |-> u.canned,
                        handler |-> handler,
                        outcomes |-> IF e.asked > 0 THEN outcomes ELSE <<>>]
            /\ dpOut' = [spoken |-> e.spoken, ai |-> e.ai, local |-> e.local,
                         response |-> NoResponse, raised |-> e.raised]
            /\ DpAiEffect(e.asked, e.context, e.ret, query)
    /\ dpCount' = dpCount + 1
    /\ UNCHANGED notDp

\* the route /api/process-command: process_command runs on the text sent
Web_process_command ==
    /\ dpCount < MaxDispatch
    /\ \E u \in Utterances, backend \in BOOLEAN :
       \E handler \in HandlerEnds(u.intent), outcomes \in RemoteOutcomes(u.intent) :
         LET query == aiCalls + 1
             r == process_command(backend, u, handler, aiClient, aiContext, query, outcomes)
         IN /\ dpIn' = [path |-> "web", backend |-> backend, intent |-> u.intent,
                        math |-> u.math, value |-> u.value, canned |-> u.canned,
                        handler |-> handler,
                        outcomes |-> IF r.asked > 0 THEN outcomes ELSE <<>>]
            /\ dpOut' = [spoken |-> <<>>, ai |-> r.ai, local |-> r.local,
                         response |-> r.response, raised |-> r.raised]
            /\ DpAiEffect(r.asked, r.context, r.ret, query)
    /\ dpCount' = dpCount + 1
    /\ UNCHANGED notDp

\* a new process: GroqAIHandler with or without a client
DP_init ==
    /\ dpCount = 0
    /\ dpIn = NoUtterance
    /\ aiClient' \in BOOLEAN
    /\ UNCHANGED <<aiContext, aiCalls, aiServed, aiRet, aiPc, aiLoc, dpVars, notDp>>

NextDP ==
    \/ VA_execute_command
    \/ Web_process_command
    \/ DP_init

\* Utterances handled one at a time, on the voice path and on the web path.
SpecDP == Init /\ [][NextDP]_vars

\* ------------------------------------------------------ exit and terminate
\* VoiceAssistant.terminate(): stop_wake_word_detection, the scheduler is
\* shut down if the wrapper has one, os._exit(0)
terminate(v, available) ==
    [v EXCEPT !.wake_word_listening = FALSE,
              !.scheduler = IF available THEN "shutdown" ELSE @,
              !.alive = FALSE]

\* a plausible slip: exit stops everything, as terminate does
handle_exit_full_stop(v, available) == terminate(v, available)

\* VoiceAssistant.handle_exit(): is_listening and keep_running are set and
\* stop_wake_word_detection clears wake_word_listening; called by the
\* wake-word thread, the join of line 708 raises on the thread itself, after
\* all three assignments, and execute_command catches it.
handle_exit(v, available) ==
    [v EXCEPT !.is_listening = FALSE,
              !.keep_running = TRUE,
              !.wake_word_listening = FALSE]

\* main(), lines 1302-1320, and listen_for_wake_words, line 651: commands
\* are taken while the process lives and listens
VaTakesCommands == va.alive /\ va.keep_running /\ (va.is_listening \/ va.wake_word_listening)

\* the daemon threads of a process that called os._exit are gone
ThreadsOf(v, threads) == IF v.alive THEN threads ELSE {}

\* execute_command with intent `exit` (line 827), from either thread
VA_handle_exit ==
    /\ VaTakesCommands
    /\ va' = handle_exit(va, schedAvail)
    /\ fbThreads' = ThreadsOf(va', fbThreads)
    /\ vaHist' = [vaHist EXCEPT !.exited = TRUE, !.at = now, !.labels = PendingLabels]
    /\ Unobserved
    /\ UNCHANGED <<now, schedAvail, jobstore, tmCounter, tmTimers, fbCounter, fbTimers,
                   notified, calls, issued, cancelled, jobIds, missed, carried, run, notVa>>

\* a call of VoiceAssistant.terminate()
VA_terminate ==
    /\ va.alive
    /\ va' = terminate(va, schedAvail)
    /\ fbThreads' = ThreadsOf(va', fbThreads)
    /\ vaHist' = [vaHist EXCEPT !.terminated = TRUE]
    /\ Unobserved
    /\ UNCHANGED <<now, schedAvail, jobstore, tmCounter, tmTimers, fbCounter, fbTimers,
                   notified, calls, issued, cancelled, jobIds, missed, carried, run, notVa>>

\* a second passes with no process: the jobs left in the store are not run
VA_dead_tick ==
    /\ ~va.alive
    /\ Tick
    /\ missed' = missed \cup {j.name : j \in {x \in jobstore : x.run_at <= now}}
    /\ Unobserved
    /\ UNCHANGED <<schedAvail, jobstore, tmCounter, tmTimers, fbCounter, fbTimers, fbThreads,
                   notified, calls, issued, cancelled, jobIds, carried, run, notTm>>

NextExit ==
    \/ VaTakesCommands /\ TM_set_timer
    \/ VaTakesCommands /\ TM_cancel_timer
    \/ VaTakesCommands /\ TM_list_timers
    \/ va.alive /\ va.scheduler = "running" /\ TimerManager_scheduler_job_wrapper
    \/ va.alive /\ FB_thread_worker_wake
    \/ va.alive /\ FB_thread_worker_notify
    \/ va.alive /\ FB_thread_worker_del
    \/ va.alive /\ TmTick
    \/ VA_handle_exit
    \/ VA_terminate
    \/ VA_dead_tick

\* One process with its timers, the exit command and terminate.
SpecExit == Init /\ [][NextExit]_vars

\* ------------------------------------------------------------- Classifier
\* The words utterances are made of; "5+3" and "-5" are written without a
\* space, "added" is a word whose lemma is "add".
Vocabulary ==
    {"what", "time", "clock", "day", "hello", "exit", "help", "weather", "countdown",
     "wake", "me", "stopwatch", "open", "find", "battery", "plus", "minute", "today",
     "rain", "5+3", "-5", "added"}

AnyWord == "\\w+"

\* a phrase occurs in the utterance: its words in a row, at word boundaries
Occurs(phrase, u) ==
    \E i \in 1..(Len(u) - Len(phrase) + 1) :
        \A k \in 1..Len(phrase) : phrase[k] = AnyWord \/ u[i + k - 1] = phrase[k]

\* a plausible slip: the table built in another order, calculate first
PatternOrder_calculate_first ==
    <<"calculate", "time", "date", "greeting", "exit", "help", "weather", "timer", "alarm",
      "stopwatch", "app", "search", "system">>

\* VoiceAssistant._setup_command_patterns: the keys in the order of the dict
PatternOrder ==
    <<"time", "date", "greeting", "exit", "help", "weather", "timer", "alarm",
      "stopwatch", "app", "search", "system", "calculate">>

\* VoiceAssistant._setup_command_patterns: the alternatives of each key's
\* regular expressions, as phrases
command_patterns ==
    [cmd \in {PatternOrder[i] : i \in 1..Len(PatternOrder)} |->
        CASE cmd = "time" -> {<<"what", "time">>, <<"current", "time">>, <<"time", "is">>,
                              <<"tell", "time">>, <<"time", "right", "now">>, <<"clock">>}
          [] cmd = "date" -> {<<"what", "date">>, <<"current", "date">>, <<"what", "day">>,
                              <<"todays", "date">>, <<"date", "today">>}
          [] cmd = "greeting" -> {<<"hello">>, <<"hi">>, <<"hey">>, <<"good", "morning">>}
          [] cmd = "exit" -> {<<"exit">>, <<"quit">>, <<"goodbye">>, <<"bye">>, <<"shutdown">>,
                              <<"turn", "off">>}
          [] cmd = "help" -> {<<"help">>, <<"what", "can", "you", "do">>, <<"commands">>,
                              <<"assistance">>}
          [] cmd = "weather" -> {<<"weather">>, <<"forecast">>, <<"temperature">>}
          [] cmd = "timer" -> {<<"set", "timer">>, <<"set", "a", "timer">>, <<"timer", "for">>,
                               <<"countdown">>, <<"remind", "me">>}
          [] cmd = "alarm" -> {<<"set", "alarm">>, <<"set", "an", "alarm">>, <<"alarm", "for">>,
                               <<"wake", "me">>}
          [] cmd = "stopwatch" -> {<<"stopwatch">>}
          [] cmd = "app" -> {<<"open", AnyWord>>, <<"launch", AnyWord>>, <<"start", AnyWord>>,
                             <<"run", AnyWord>>}
          [] cmd = "search" -> {<<"search", "for">>, <<"look", "up">>, <<"google">>, <<"find">>}
          [] cmd = "system" -> {<<"system", "info">>, <<"battery">>, <<"memory">>, <<"disk">>,
                                <<"storage">>, <<"cpu">>}
          [] cmd = "calculate" -> {<<"calculate">>, <<"solve">>, <<"compute">>, <<"add">>,
                                   <<"plus">>, <<"subtract">>, <<"minus">>, <<"multiply">>,
                                   <<"times">>, <<"divide">>, <<"divided">>}]

\* re.search of one of the patterns of cmd succeeds on the utterance
PatternHit(cmd, u) == \E phrase \in command_patterns[cmd] : Occurs(phrase, u)

\* lines 756-759: the loop over command_patterns.items(), from entry i on
RECURSIVE FirstPattern(_, _)
FirstPattern(i, u) ==
    IF i > Len(PatternOrder) THEN "none"
    ELSE IF PatternHit(PatternOrder[i], u) THEN PatternOrder[i]
    ELSE FirstPattern(i + 1, u)

\* spaCy's lemma of a word of the vocabulary
Lemma(w) == IF w = "added" THEN "add" ELSE w

\* tokens + lemmas, line 769 and on
TokensAndLemmas(u) == {u[i] : i \in 1..Len(u)} \cup {Lemma(u[i]) : i \in 1..Len(u)}

Tokens(u) == {u[i] : i \in 1..Len(u)}

\* the characters of a word, as far as line 787 looks at them: it has a
\* digit, it has one of + - * / x, it has one of them after a digit
HasDigit(w) == w \in {"5+3", "-5"}
HasOperator(w) == w \in {"5+3", "-5", "exit"}
DigitThenOperator(w) == w = "5+3"

\* line 787: re.search(r'\d+.*[\+\-\*\/x...]', q)
NumbersWithOperators(u) ==
    \E i \in 1..Len(u) :
        \/ DigitThenOperator(u[i])
        \/ HasDigit(u[i]) /\ \E j \in (i + 1)..Len(u) : HasOperator(u[j])

\* lines 761-805: the spaCy pass
EnhancedIntent(u) ==
    LET tl == TokensAndLemmas(u) IN
    IF /\ tl \cap {"time", "clock", "hour", "minute"} # {}
       /\ \E ph \in {<<"what", "time">>, <<"current", "time">>, <<"time", "is">>,
                     <<"time", "right", "now">>} : Occurs(ph, u)
    THEN "time"
    ELSE IF /\ tl \cap {"date", "day", "today", "calendar"} # {}
            /\ \E ph \in {<<"what", "date">>, <<"what", "day">>, <<"today">>} : Occurs(ph, u)
    THEN "date"
    ELSE IF tl \cap {"calculate", "compute", "add", "subtract", "multiply", "divide",
                     "plus", "minus", "times"} # {}
    THEN "calculate"
    ELSE IF NumbersWithOperators(u) THEN "calculate"
    ELSE IF tl \cap {"battery", "memory", "disk", "storage", "system"} # {} THEN "system"
    ELSE IF tl \cap {"weather", "temperature", "forecast", "rain", "sunny", "cloudy"} # {}
    THEN "weather"
    ELSE IF Tokens(u) \cap {"open", "launch", "start", "run"} # {} THEN "app"
    ELSE "unknown"

\* VoiceAssistant.recognize_command(query)
recognize_command(u, nlp) ==
    IF u = <<>> THEN "unknown"
    ELSE LET cmd == FirstPattern(1, u) IN
         IF cmd # "none" THEN cmd
         ELSE IF nlp THEN EnhancedIntent(u)
         ELSE "unknown"

\* VoiceAssistant.__init__, lines 513-520: spaCy is loaded or not
RC_init ==
    /\ rcHeard = <<>>
    /\ rcOut = "none"
    /\ rcNlp' \in BOOLEAN
    /\ UNCHANGED <<rcHeard, rcOut, notRc>>

\* listen(): one more word of the utterance
RC_hear ==
    /\ rcOut = "none"
    /\ Len(rcHeard) < MaxWords
    /\ \E w \in Vocabulary : rcHeard' = Append(rcHeard, w)
    /\ UNCHANGED <<rcNlp, rcOut, notRc>>

\* main(), line 1319: intent = assistant.recognize_command(command_raw)
RC_recognize_command ==
    /\ rcOut = "none"
    /\ rcOut' = recognize_command(rcHeard, rcNlp)
    /\ UNCHANGED <<rcNlp, rcHeard, notRc>>

\* the next turn of the loop
RC_next ==
    /\ rcOut # "none"
    /\ rcHeard' = <<>>
    /\ rcOut' = "none"
    /\ UNCHANGED <<rcNlp, notRc>>

NextRC ==
    \/ RC_init
    \/ RC_hear
    \/ RC_recognize_command
    \/ RC_next

\* Utterances classified one at a time.
SpecRC == Init /\ [][NextRC]_vars

\* -------------------------------------------------------------- set_alarm
\* dt.timedelta(days=1), in seconds
DaySeconds == 86400

DayTicks == DaySeconds * TicksPerSecond

\* the times of day an alarm is asked for, in minutes after midnight
\* (dt.time(hour, minute)): 00:00, 00:01, 12:00, 23:59
TargetMinutes == {0, 1, 720, 1439}

TicksOf(minutes) == minutes * 60 * TicksPerSecond

\* the clock readings at which set_alarm is called, in ticks after the
\* midnight that began today: around each target, and the ends of the day
AlarmNows ==
    {t \in 0..(DayTicks - 1) :
        \E m \in TargetMinutes, d \in (0 - Near)..Near :
            t = (TicksOf(m) + d + DayTicks) % DayTicks}

\* a plausible slip: the comparison of line 336 turned round
set_alarm_yesterday(nowTicks, target) ==
    LET today == TicksOf(target)
        target_datetime == IF today >= nowTicks THEN today + DayTicks ELSE today
        d == target_datetime - nowTicks
        duration_seconds == IF d >= 0 THEN d \div TicksPerSecond
                            ELSE 0 - ((0 - d) \div TicksPerSecond)
    IN [duration |-> duration_seconds,
        run_at |-> nowTicks + duration_seconds * TicksPerSecond]

\* TimerManager.set_alarm(target_time): the duration handed to set_timer
\* and the run date set_timer gives the job, in ticks after today's midnight
set_alarm(nowTicks, target) ==
    LET today == TicksOf(target)
        target_datetime == IF today <= nowTicks THEN today + DayTicks ELSE today
        \* int() of a positive number of seconds
        duration_seconds == (target_datetime - nowTicks) \div TicksPerSecond
    IN [duration |-> duration_seconds,
        run_at |-> nowTicks + duration_seconds * TicksPerSecond]

\* handle_alarm, line 1091: one call of set_alarm
AL_set_alarm ==
    /\ \E t \in AlarmNows, m \in TargetMinutes :
         /\ alIn' = [now |-> t, target |-> m]
         /\ alOut' = set_alarm(t, m)
    /\ UNCHANGED notAl

\* Alarms asked for at any time of the day.
SpecAlarm == Init /\ [][AL_set_alarm]_vars

\* --------------------------------------------------- Expression Evaluator
\* The words an utterance given to the evaluator is made of.
EvNumbers == {"0", "2", "4"}

EvWords == {"plus", "minus", "times", "divided", "by", "squared", "cubed",
            "square", "root", "of", "percent"}

\* a piece of Python an utterance may carry
Injection == "__import__('os')"

EvVocabulary == EvNumbers \cup EvWords \cup {Injection}

\* the characters of a word or of a replacement text
Chars(w) ==
    CASE w = "plus" -> <<"p", "l", "u", "s">>
      [] w = "minus" -> <<"m", "i", "n", "u", "s">>
      [] w = "times" -> <<"t", "i", "m", "e", "s">>
      [] w = "divided" -> <<"d", "i", "v", "i", "d", "e", "d">>
      [] w = "by" -> <<"b", "y">>
      [] w = "squared" -> <<"s", "q", "u", "a", "r", "e", "d">>
      [] w = "cubed" -> <<"c", "u", "b", "e", "d">>
      [] w = "square" -> <<"s", "q", "u", "a", "r", "e">>
      [] w = "root" -> <<"r", "o", "o", "t">>
      [] w = "of" -> <<"o", "f">>
      [] w = "percent" -> <<"p", "e", "r", "c", "e", "n", "t">>
      [] w = Injection -> <<"_", "_", "i", "m", "p", "o", "r", "t", "_", "_", "(", "'",
                            "o", "s", "'", ")">>
      [] w = " + " -> <<" ", "+", " ">>
      [] w = " - " -> <<" ", "-", " ">>
      [] w = " * " -> <<" ", "*", " ">>
      [] w = " / " -> <<" ", "/", " ">>
      [] w = " ** 2" -> <<" ", "*", "*", " ", "2">>
      [] w = " ** 3" -> <<" ", "*", "*", " ", "3">>
      [] w = "sqrt(" -> <<"s", "q", "r", "t", "(">>
      [] w = " * 0.01 * " -> <<" ", "*", " ", "0", ".", "0", "1", " ", "*", " ">>
      [] w = "+" -> <<"+">>
      [] w = "-" -> <<"-">>
      [] w = "*" -> <<"*">>
      [] w = "/d" -> <<"/", "d">>
      [] OTHER -> <<w>>

\* re.sub(pat, rep, expression) for a pattern that is a phrase between word
\* boundaries: every occurrence, left to right
RECURSIVE SubPhrase(_, _, _)
SubPhrase(pat, rep, words) ==
    IF Len(words) < Len(pat) THEN words
    ELSE IF SubSeq(words, 1, Len(pat)) = pat
         THEN <<rep>> \o SubPhrase(pat, rep, SubSeq(words, Len(pat) + 1, Len(words)))
         ELSE <<Head(words)>> \o SubPhrase(pat, rep, Tail(words))

\* lines 912-928: the replacements, in their order
replacements ==
    << [pat |-> <<"plus">>, rep |-> " + "],
       [pat |-> <<"minus">>, rep |-> " - "],
       [pat |-> <<"times">>, rep |-> " * "],
       [pat |-> <<"multiplied", "by">>, rep |-> " * "],
       [pat |-> <<"divided", "by">>, rep |-> " / "],
       [pat |-> <<"over">>, rep |-> " / "],
       [pat |-> <<"into">>, rep |-> " * "],
       [pat |-> <<"of">>, rep |-> " * "],
       [pat |-> <<"x">>, rep |-> " * "],
       [pat |-> <<"squared">>, rep |-> " ** 2"],
       [pat |-> <<"cubed">>, rep |-> " ** 3"],
       [pat |-> <<"square", "root", "of">>, rep |-> "sqrt("],
       [pat |-> <<"percent", "of">>, rep |-> " * 0.01 * "] >>

\* lines 930-931: the loop over the replacements, from entry i on
RECURSIVE ApplyReplacements(_, _, _)
ApplyReplacements(table, i, words) ==
    IF i > Len(table) THEN words
    ELSE ApplyReplacements(table, i + 1, SubPhrase(table[i].pat, table[i].rep, words))

\* the text of the words, one space between two words
RECURSIVE Join(_)
Join(words) ==
    IF words = <<>> THEN <<>>
    ELSE IF Len(words) = 1 THEN Chars(words[1])
    ELSE Chars(words[1]) \o <<" ">> \o Join(Tail(words))

\* the characters re.sub(r'[^0-9.+\-*/()\s]', '', expression) keeps
SafeChars == {"0", "1", "2", "3", "4", "5", "6", "7", "8", "9",
              ".", "+", "-", "*", "/", "(", ")", " "}

\* line 939: the characters outside the class are deleted
KeepSafe(chars) == SelectSeq(chars, LAMBDA ch : ch \in SafeChars)

\* str.strip()
RECURSIVE LStrip(_)
LStrip(chars) ==
    IF chars # <<>> /\ Head(chars) = " " THEN LStrip(Tail(chars)) ELSE chars

RECURSIVE RStrip(_)
RStrip(chars) ==
    IF chars # <<>> /\ chars[Len(chars)] = " "
    THEN RStrip(SubSeq(chars, 1, Len(chars) - 1)) ELSE chars

Strip(chars) == RStrip(LStrip(chars))

\* ---- Python's reading of the expression: numbers as fractions n/d, fl for
\* a float, beyond for a value outside the range computed here
Digits == {"0", "1", "2", "3", "4", "5", "6", "7", "8", "9"}

DigitVal(ch) ==
    CASE ch = "0" -> 0 [] ch = "1" -> 1 [] ch = "2" -> 2 [] ch = "3" -> 3 [] ch = "4" -> 4
      [] ch = "5" -> 5 [] ch = "6" -> 6 [] ch = "7" -> 7 [] ch = "8" -> 8 [] ch = "9" -> 9

\* values are kept below Cap so that no product leaves the machine integers
Cap == 30000

Abs(x) == IF x < 0 THEN 0 - x ELSE x

RECURSIVE GCD(_, _)
GCD(a, b) == IF b = 0 THEN a ELSE GCD(b, a % b)

Beyond == [n |-> 0, d |-> 1, fl |-> FALSE, beyond |-> TRUE]

\* the fraction n/d in lowest terms
Frac(n, d, fl) ==
    IF Abs(n) > Cap * Cap \/ d > Cap * Cap THEN Beyond
    ELSE LET g == GCD(Abs(n), d)
             nn == IF g = 0 THEN 0 ELSE n \div g
             dd == IF g = 0 THEN 1 ELSE d \div g
         IN IF Abs(nn) > Cap \/ dd > Cap THEN Beyond
            ELSE [n |-> nn, d |-> dd, fl |-> fl, beyond |-> FALSE]

IntVal(k) == Frac(k, 1, FALSE)

FAdd(a, b) == IF a.beyond \/ b.beyond THEN Beyond
              ELSE Frac(a.n * b.d + b.n * a.d, a.d * b.d, a.fl \/ b.fl)

FSub(a, b) == IF a.beyond \/ b.beyond THEN Beyond
              ELSE Frac(a.n * b.d - b.n * a.d, a.d * b.d, a.fl \/ b.fl)

FMul(a, b) == IF a.beyond \/ b.beyond THEN Beyond
              ELSE Frac(a.n * b.n, a.d * b.d, a.fl \/ b.fl)

\* a / b for b # 0: always a float
FDiv(a, b) == IF a.beyond \/ b.beyond THEN Beyond
              ELSE IF b.n > 0 THEN Frac(a.n * b.d, a.d * b.n, TRUE)
              ELSE Frac(0 - a.n * b.d, a.d * (0 - b.n), TRUE)

RECURSIVE PowInt(_, _)
PowInt(a, e) == IF e = 0 THEN Frac(1, 1, a.fl) ELSE FMul(a, PowInt(a, e - 1))

\* a ** b for a whole b >= 0
FPow(a, b) ==
    IF a.beyond \/ b.beyond \/ b.d # 1 \/ b.n < 0 THEN Beyond
    ELSE IF b.n = 0 THEN Frac(1, 1, a.fl \/ b.fl)
    ELSE IF a.d = 1 /\ a.n \in {0, 1} THEN Frac(a.n, 1, a.fl \/ b.fl)
    ELSE IF b.n > 31 THEN Beyond
    ELSE LET p == PowInt(a, b.n) IN IF p.beyond THEN Beyond ELSE [p EXCEPT !.fl = a.fl \/ b.fl]

\* lines 958-959: round(float(result), 6) for a float, halves rounded up
Round6(v) ==
    IF v.beyond \/ ~v.fl THEN v
    ELSE IF 1000000 % v.d = 0 THEN v
    ELSE IF Abs(v.n) > 2000 THEN Beyond
    ELSE LET q == (Abs(v.n) * 1000000) \div v.d
             r == (Abs(v.n) * 1000000) % v.d
             m == IF 2 * r >= v.d THEN q + 1 ELSE q
             whole == m \div 1000000
             part == m % 1000000
         IN IF whole > Cap THEN Beyond
            ELSE LET w == Frac(whole, 1, TRUE)
                     f == Frac(part, 1000000, TRUE)
                     s == FAdd(w, f)
                 IN IF v.n < 0 THEN FSub(Frac(0, 1, TRUE), s) ELSE s

\* the tokens of the text: numbers, + - * / ** ( ), and "?" for a lone dot
RECURSIVE NumberAt(_, _, _, _, _)
NumberAt(chars, i, n, d, dotted) ==
    IF i <= Len(chars) /\ chars[i] \in Digits /\ n <= Cap /\ d <= Cap
    THEN NumberAt(chars, i + 1, n * 10 + DigitVal(chars[i]), IF dotted THEN d * 10 ELSE d, dotted)
    ELSE IF i <= Len(chars) /\ chars[i] = "." /\ ~dotted
    THEN NumberAt(chars, i + 1, n, d, TRUE)
    ELSE [tok |-> [k |-> "num", v |-> Frac(n, d, dotted)], next |-> i]

RECURSIVE Lex(_, _)
Lex(chars, i) ==
    IF i > Len(chars) THEN <<>>
    ELSE IF chars[i] = " " THEN Lex(chars, i + 1)
    ELSE IF chars[i] \in Digits
    THEN LET r == NumberAt(chars, i, 0, 1, FALSE) IN <<r.tok>> \o Lex(chars, r.next)
    ELSE IF chars[i] = "." /\ i < Len(chars) /\ chars[i + 1] \in Digits
    THEN LET r == NumberAt(chars, i + 1, 0, 1, TRUE) IN <<r.tok>> \o Lex(chars, r.next)
    ELSE IF chars[i] = "*" /\ i < Len(chars) /\ chars[i + 1] = "*"
    THEN <<[k |-> "**", v |-> Beyond]>> \o Lex(chars, i + 2)
    ELSE IF chars[i] \in {"+", "-", "*", "/", "(", ")"}
    THEN <<[k |-> chars[i], v |-> Beyond]>> \o Lex(chars, i + 1)
    ELSE <<[k |-> "?", v |-> Beyond]>> \o Lex(chars, i + 1)

\* the parse of Python's expression grammar, each part giving
\* [ok, v, tuple, pos]: ok is FALSE for a SyntaxError or an error raised by
\* the evaluation, tuple is TRUE for the value ()
Failed == [ok |-> FALSE, v |-> Beyond, tuple |-> FALSE, pos |-> 0]

Kind(toks, i) == IF i <= Len(toks) THEN toks[i].k ELSE "end"

\* one operator for the whole grammar: part names the rule, x is where it
\* starts, or for the two loops the operand read so far
RECURSIVE Parse(_, _, _)
Parse(part, toks, x) ==
    CASE part = "atom" ->
           IF Kind(toks, x) = "num"
           THEN [ok |-> TRUE, v |-> toks[x].v, tuple |-> FALSE, pos |-> x + 1]
           ELSE IF Kind(toks, x) = "(" /\ Kind(toks, x + 1) = ")"
           THEN [ok |-> TRUE, v |-> Beyond, tuple |-> TRUE, pos |-> x + 2]
           ELSE IF Kind(toks, x) = "("
           THEN LET e == Parse("expr", toks, x + 1) IN
                IF e.ok /\ Kind(toks, e.pos) = ")" THEN [e EXCEPT !.pos = e.pos + 1]
                ELSE Failed
           ELSE Failed
      \* a call of a number, or an operation on a tuple, raises TypeError
      [] part = "power" ->
           LET a == Parse("atom", toks, x) IN
           IF ~a.ok THEN Failed
           ELSE IF Kind(toks, a.pos) = "(" THEN Failed
           ELSE IF Kind(toks, a.pos) = "**"
           THEN LET f == Parse("factor", toks, a.pos + 1) IN
                IF ~f.ok \/ a.tuple \/ f.tuple THEN Failed
                ELSE [ok |-> TRUE, v |-> FPow(a.v, f.v), tuple |-> FALSE, pos |-> f.pos]
           ELSE a
      [] part = "factor" ->
           LET sign == Kind(toks, x)
               f == Parse(IF sign \in {"+", "-"} THEN "factor" ELSE "power", toks,
                          IF sign \in {"+", "-"} THEN x + 1 ELSE x)
           IN IF sign \notin {"+", "-"} THEN f
              ELSE IF ~f.ok \/ f.tuple THEN Failed
              ELSE IF sign = "-" THEN [f EXCEPT !.v = FSub(IntVal(0), f.v)]
              ELSE f
      [] part = "term" \/ part = "expr" ->
           LET first == Parse(IF part = "term" THEN "factor" ELSE "term", toks, x)
           IN IF first.ok
              THEN Parse(IF part = "term" THEN "termrest" ELSE "exprrest", toks, first)
              ELSE Failed
      [] part = "termrest" \/ part = "exprrest" ->
           LET op == Kind(toks, x.pos)
               mine == IF part = "termrest" THEN {"*", "/"} ELSE {"+", "-"}
           IN IF op \notin mine THEN x
              ELSE LET r == Parse(IF part = "termrest" THEN "factor" ELSE "term", toks,
                                  x.pos + 1)
                   IN IF ~r.ok \/ x.tuple \/ r.tuple THEN Failed
                      ELSE IF op = "/" /\ ~r.v.beyond /\ r.v.n = 0 THEN Failed
                      ELSE Parse(part, toks,
                                 [r EXCEPT !.v = CASE op = "*" -> FMul(x.v, r.v)
                                                   [] op = "/" -> FDiv(x.v, r.v)
                                                   [] op = "+" -> FAdd(x.v, r.v)
                                                   [] op = "-" -> FSub(x.v, r.v)])

ParseExpr(toks, i) == Parse("expr", toks, i)

\* eval(expression, ...) of a text of safe characters: [ok, v, tuple]
PyEval(chars) ==
    LET toks == Lex(chars, 1)
        e == ParseExpr(toks, 1)
    IN IF toks # <<>> /\ e.ok /\ e.pos = Len(toks) + 1
       THEN [ok |-> TRUE, v |-> e.v, tuple |-> e.tuple]
       ELSE [ok |-> FALSE, v |-> Beyond, tuple |-> FALSE]

\* float(expression) of a text with no operator: a number, maybe with dot
PyFloat(chars) ==
    LET toks == Lex(chars, 1) IN
    IF Len(toks) = 1 /\ toks[1].k = "num" /\ " " \notin {chars[i] : i \in 1..Len(chars)}
    THEN [ok |-> TRUE, v |-> [toks[1].v EXCEPT !.fl = TRUE], tuple |-> FALSE]
    ELSE [ok |-> FALSE, v |-> Beyond, tuple |-> FALSE]

\* the names eval can look up: the second argument of line 955, and for
\* the web variant, called with no second argument, some of the builtins and
\* module globals it then sees
SandboxNames == {"sqrt"}

DefaultNames == {"__import__", "open", "eval", "exec", "os"}

NoResult == [ok |-> FALSE, v |-> Beyond, tuple |-> FALSE]

HasAny(chars, set) == \E i \in 1..Len(chars) : chars[i] \in set

\* line 909: the question words are removed
QuestionWords == {"what", "whats", "calculate", "solve", "compute", "find"}

\* VoiceAssistant._evaluate_math_expression(query):
\* [handed, evaluated, env, ret, raised]; handed is the text given to eval
_evaluate_math_expression(words) ==
    LET asked == SelectSeq(words, LAMBDA w : w \notin QuestionWords)
        expression == Strip(KeepSafe(Join(ApplyReplacements(replacements, 1, asked))))
        quiet == [handed |-> <<>>, evaluated |-> FALSE, env |-> {}, ret |-> NoResult,
                  raised |-> FALSE]
    IN IF ~HasAny(expression, Digits) THEN quiet
       ELSE IF ~HasAny(expression, {"+", "-", "*", "/"})
       THEN [quiet EXCEPT !.ret = PyFloat(expression)]
       ELSE IF \E i \in 1..Len(expression) : expression[i] \notin SafeChars THEN quiet
       ELSE LET r == PyEval(expression) IN
            [handed |-> expression, evaluated |-> TRUE, env |-> SandboxNames,
             ret |-> IF r.ok /\ ~r.tuple THEN [r EXCEPT !.v = Round6(r.v)] ELSE NoResult,
             raised |-> FALSE]

\* str.replace of the web variant, word by word: 'divide' is replaced
\* inside 'divided'
WebReplace(w) ==
    CASE w = "plus" -> "+" [] w = "minus" -> "-" [] w = "times" -> "*"
      [] w = "divided" -> "/d" [] OTHER -> w

RECURSIVE MapWords(_)
MapWords(words) ==
    IF words = <<>> THEN <<>> ELSE <<WebReplace(Head(words))>> \o MapWords(Tail(words))

\* WebVoiceAssistant._process_local_command, lines 146-184: an earlier
\* branch answers a text that contains 'time', 'clock', 'date', 'today',
\* 'hello', 'hi', 'hey' or 'help'
WebAnsweredBefore(words) == \E i \in 1..Len(words) : words[i] = "times"

\* line 187: the text contains one of the words that start the calculation
WebMathWords(words) == \E i \in 1..Len(words) : words[i] \in {"plus", "minus", "times", "divided"}

\* WebVoiceAssistant._process_local_command, lines 186-200
web_calculate(words) ==
    LET quiet == [handed |-> <<>>, evaluated |-> FALSE, env |-> {}, ret |-> NoResult,
                  raised |-> FALSE]
        math_expr == Strip(KeepSafe(Join(MapWords(words))))
    IN IF WebAnsweredBefore(words) \/ ~WebMathWords(words) \/ math_expr = <<>> THEN quiet
       ELSE [handed |-> math_expr, evaluated |-> TRUE, env |-> DefaultNames,
             ret |-> PyEval(math_expr), raised |-> FALSE]

NoEval == [variant |-> "none", handed |-> <<>>, evaluated |-> FALSE, env |-> {},
           ret |-> NoResult, raised |-> FALSE]

\* one more word of the utterance
EV_hear ==
    /\ evOut = NoEval
    /\ Len(evHeard) < MaxTerms
    /\ \E w \in EvVocabulary : evHeard' = Append(evHeard, w)
    /\ UNCHANGED <<evOut, notEv>>

\* handle_calculation, line 1194, and _handle_local_fallbacks, line 862
EV_evaluate_math_expression ==
    /\ evOut = NoEval
    /\ LET r == _evaluate_math_expression(evHeard)
       IN evOut' = [variant |-> "voice", handed |-> r.handed, evaluated |-> r.evaluated,
                    env |-> r.env, ret |-> r.ret, raised |-> r.raised]
    /\ UNCHANGED <<evHeard, notEv>>

\* process_command, line 130: the text goes to _process_local_command
EV_web_calculate ==
    /\ evOut = NoEval
    /\ LET r == web_calculate(evHeard)
       IN evOut' = [variant |-> "web", handed |-> r.handed, evaluated |-> r.evaluated,
                    env |-> r.env, ret |-> r.ret, raised |-> r.raised]
    /\ UNCHANGED <<evHeard, notEv>>

\* the next utterance
EV_next ==
    /\ evOut # NoEval
    /\ evHeard' = <<>>
    /\ evOut' = NoEval
    /\ UNCHANGED notEv

NextEV ==
    \/ EV_hear
    \/ EV_evaluate_math_expression
    \/ EV_web_calculate
    \/ EV_next

\* Utterances evaluated one at a time, by the voice and by the web variant.
SpecEV == Init /\ [][NextEV]_vars

\* ------------------------------------------------- 'terminate assistant'
\* main(), lines 1304-1320, and listen_for_wake_words: the utterance
\* 'terminate assistant' is received, classified and executed. In
\* execute_command only the intent `exit` changes the flags of the process;
\* no branch of it calls terminate().
VA_terminate_assistant ==
    /\ VaTakesCommands
    /\ \E nlp \in BOOLEAN :
         LET intent == recognize_command(<<"terminate", "assistant">>, nlp) IN
         /\ vaSaid' = [heard |-> TRUE, intent |-> intent]
         /\ va' = IF intent = "exit" THEN handle_exit(va, schedAvail) ELSE va
         /\ vaHist' = IF intent = "exit"
                      THEN [vaHist EXCEPT !.exited = TRUE, !.at = now, !.labels = PendingLabels]
                      ELSE vaHist
    /\ Unobserved
    /\ UNCHANGED <<now, schedAvail, jobstore, tmCounter, tmTimers, fbCounter, fbTimers,
                   fbThreads, notified, calls, issued, cancelled, jobIds, missed, carried, run,
                   swVars, swhVars, swcVars, stcVars, aiVars, dpVars, notSa>>

NextSay ==
    \/ NextExit
    \/ VA_terminate_assistant

\* One process with its timers, exit, terminate and the utterance.
SpecSay == Init /\ [][NextSay]_vars

\* ------------------------------------------------------------- the web wrapper's speak swap
\* WebVoiceAssistant.process_command, one statement per step, run by the
\* request threads of the web server, next to the thread that delivers a timer
\* notification.

Requests == 1 .. MaxRequests

\* the commands sent to the server: two built-in ones and one that is not
WebIntents == {"timer", "time", "unknown"}

\* the two kinds of function assistant.speak can hold
VoiceAssistant_speak == <<"speak">>
capture_speak(r) == <<"capture_speak", r>>

\* the text of a timer notification, and of the reply of request r's handler
TimerText == <<"timer">>
Reply(r) == <<"reply", r>>

\* calling the function f that assistant.speak holds: VoiceAssistant.speak
\* says the text aloud, request f's capture_speak appends it to its list
CallSpeak(f, text) ==
    IF f = VoiceAssistant_speak
    THEN /\ wsSpoken' = wsSpoken \cup {text}
         /\ wsResponses' = wsResponses
    ELSE /\ wsResponses' = [wsResponses EXCEPT ![f[2]] = Append(@, text)]
         /\ wsSpoken' = wsSpoken

InFlight(r) == wsReq[r].pc \notin {"idle", "done"}

WsGoto(r, pc) == wsReq' = [wsReq EXCEPT ![r].pc = pc]

\* lines 82 and 86: the command is classified
WS_recognize_command(r) ==
    /\ wsReq[r].pc = "idle"
    /\ \E intent \in WebIntents :
         wsReq' = [wsReq EXCEPT ![r].pc = IF intent \in built_in_domains
                                         THEN "save" ELSE "groq",
                                ![r].intent = intent]
    /\ UNCHANGED <<wsSpeak, wsResponses, wsSpoken, wsTimers, wsFired>>
    /\ UNCHANGED notWs

\* lines 111-119: a command that is not built in is answered by the AI
WS_groq(r) ==
    /\ wsReq[r].pc = "groq"
    /\ wsReq' = [wsReq EXCEPT ![r].pc = "done", ![r].response = <<"ai">>]
    /\ UNCHANGED <<wsSpeak, wsResponses, wsSpoken, wsTimers, wsFired>>
    /\ UNCHANGED notWs

\* lines 88-89: responses = []; original_speak = self.assistant.speak
WS_save_original(r) ==
    /\ wsReq[r].pc = "save"
    /\ wsReq' = [wsReq EXCEPT ![r].pc = "swap", ![r].original_speak = wsSpeak]
    /\ wsResponses' = [wsResponses EXCEPT ![r] = << >>]
    /\ UNCHANGED <<wsSpeak, wsSpoken, wsTimers, wsFired>>
    /\ UNCHANGED notWs

\* line 96: self.assistant.speak = capture_speak
WS_install_capture(r) ==
    /\ wsReq[r].pc = "swap"
    /\ wsSpeak' = capture_speak(r)
    /\ WsGoto(r, "execute")
    /\ UNCHANGED <<wsResponses, wsSpoken, wsTimers, wsFired>>
    /\ UNCHANGED notWs

\* line 99: self.assistant.execute_command(intent, command); the handler
\* answers through self.speak, and the timer handler sets a timer
WS_execute_command(r) ==
    /\ wsReq[r].pc = "execute"
    /\ CallSpeak(wsSpeak, Reply(r))
    /\ wsTimers' = IF wsReq[r].intent = "timer" THEN wsTimers + 1 ELSE wsTimers
    /\ WsGoto(r, "pick")
    /\ UNCHANGED <<wsSpeak, wsFired>>
    /\ UNCHANGED notWs

\* line 100: response = responses[0] if responses else "Command processed"
WS_pick_response(r) ==
    /\ wsReq[r].pc = "pick"
    /\ wsReq' = [wsReq EXCEPT ![r].pc = "restore",
                              ![r].response = IF wsResponses[r] # << >>
                                              THEN wsResponses[r][1]
                                              ELSE <<"Command processed">>]
    /\ UNCHANGED <<wsSpeak, wsResponses, wsSpoken, wsTimers, wsFired>>
    /\ UNCHANGED notWs

\* line 102: finally: self.assistant.speak = original_speak
WS_restore(r) ==
    /\ wsReq[r].pc = "restore"
    /\ wsSpeak' = wsReq[r].original_speak
    /\ WsGoto(r, "done")
    /\ UNCHANGED <<wsResponses, wsSpoken, wsTimers, wsFired>>
    /\ UNCHANGED notWs

\* TimerManager._notify, line 288: a timer set by an earlier command fires
\* and its message is given to whatever assistant.speak holds now
WS_notify ==
    /\ wsTimers > 0
    /\ wsTimers' = wsTimers - 1
    /\ wsFired' = wsFired + 1
    /\ CallSpeak(wsSpeak, TimerText)
    /\ UNCHANGED <<wsSpeak, wsReq>>
    /\ UNCHANGED notWs

WS_process_command(r) ==
    \/ WS_recognize_command(r)
    \/ WS_groq(r)
    \/ WS_save_original(r)
    \/ WS_install_capture(r)
    \/ WS_execute_command(r)
    \/ WS_pick_response(r)
    \/ WS_restore(r)

NextWS ==
    \/ \E r \in Requests : WS_process_command(r)
    \/ WS_notify

SpecWS == Init /\ [][NextWS]_vars

\* ------------------------------------------------------------- chat sessions
\* The chat_sessions table, the create and delete endpoints of chat_manager.py
\* and the registration that gives a user the first session.  Each request is
\* served by a worker with a database session of its own; a query or a commit
\* is one step.

Users == {"alice", "bob"}
Workers == {"w1", "w2"}
SessionIds == 1 .. MaxSessions

\* ChatSession.query.filter_by(user_id=u)
SessionsOf(table, u) == {s \in table : s.user_id = u}

\* auth.py lines 99-107: the User row is added and committed
CS_register_user(u) ==
    /\ csUsers[u] = "none"
    /\ csUsers' = [csUsers EXCEPT ![u] = "committed"]
    /\ UNCHANGED <<csSessions, csCounter, csReq>>
    /\ UNCHANGED notCs

\* auth.py lines 110-116: the default chat session is added and committed
CS_register_default_session(u) ==
    /\ csUsers[u] = "committed"
    /\ csCounter < MaxSessions
    /\ csCounter' = csCounter + 1
    /\ csSessions' = csSessions \cup {[id |-> csCounter + 1, user_id |-> u]}
    /\ csUsers' = [csUsers EXCEPT ![u] = "registered"]
    /\ UNCHANGED csReq
    /\ UNCHANGED notCs

\* create_chat_session, lines 67-74: a row with a fresh id, committed
CS_create_chat_session(w, u) ==
    /\ csReq[w].pc \in {"idle", "done"}
    /\ csUsers[u] # "none"
    /\ csCounter < MaxSessions
    /\ csCounter' = csCounter + 1
    /\ csSessions' = csSessions \cup {[id |-> csCounter + 1, user_id |-> u]}
    /\ csReq' = [csReq EXCEPT ![w] = [pc |-> "done", op |-> "create",
                                      user |-> u, sid |-> csCounter + 1,
                                      status |-> 201]]
    /\ UNCHANGED csUsers
    /\ UNCHANGED notCs

\* delete_chat_session, lines 191-197: the row is looked up by id and user
CS_delete_lookup(w, u, sid) ==
    /\ csReq[w].pc \in {"idle", "done"}
    /\ csUsers[u] # "none"
    /\ csReq' = [csReq EXCEPT ![w] =
                    IF [id |-> sid, user_id |-> u] \in csSessions
                    THEN [pc |-> "count", op |-> "delete", user |-> u,
                          sid |-> sid, status |-> 0]
                    ELSE [pc |-> "done", op |-> "delete", user |-> u,
                          sid |-> sid, status |-> 404]]
    /\ UNCHANGED <<csSessions, csCounter, csUsers>>
    /\ UNCHANGED notCs

\* lines 200-205: the user's sessions are counted
CS_delete_count(w) ==
    /\ csReq[w].pc = "count"
    /\ LET session_count == Cardinality(SessionsOf(csSessions, csReq[w].user))
       IN  csReq' = [csReq EXCEPT ![w] =
                        IF session_count <= 1
                        THEN [@ EXCEPT !.pc = "done", !.status = 400]
                        ELSE [@ EXCEPT !.pc = "commit"]]
    /\ UNCHANGED <<csSessions, csCounter, csUsers>>
    /\ UNCHANGED notCs

\* lines 207-218: DELETE of the row by its primary key, and commit; when the
\* row is gone already nothing is deleted, and the library either warns (200)
\* or raises (rollback, 500)
CS_delete_commit(w) ==
    /\ csReq[w].pc = "commit"
    /\ LET row == [id |-> csReq[w].sid, user_id |-> csReq[w].user]
       IN  /\ csSessions' = csSessions \ {row}
           /\ \E status \in IF row \in csSessions THEN {200} ELSE {200, 500} :
                csReq' = [csReq EXCEPT ![w] = [@ EXCEPT !.pc = "done",
                                                        !.status = status]]
    /\ UNCHANGED <<csCounter, csUsers>>
    /\ UNCHANGED notCs

CS_delete_chat_session(w) ==
    \/ \E u \in Users, sid \in SessionIds : CS_delete_lookup(w, u, sid)
    \/ CS_delete_count(w)
    \/ CS_delete_commit(w)

CS_register(u) ==
    \/ CS_register_user(u)
    \/ CS_register_default_session(u)

NextCS ==
    \/ \E u \in Users : CS_register(u)
    \/ \E w \in Workers, u \in Users : CS_create_chat_session(w, u)
    \/ \E w \in Workers : CS_delete_chat_session(w)

SpecCS == Init /\ [][NextCS]_vars

\* ------------------------------------------------------------- properties
LabelsInTables ==
    {tmTimers[k].name : k \in DOMAIN tmTimers}
    \cup {fbTimers[k].name : k \in DOMAIN fbTimers}
    \cup {j.name : j \in jobstore}

\* the labels whose fire handler has run to its end in this process
FireDone == {l \in DOMAIN notified :
                notified[l].run = run /\ ~\E th \in fbThreads : th.name = l}

\* C4: once a timer has fired (its handler has finished), for either origin
\* kind, its notification has run exactly once and none of the scheduler's
\* tables holds a record of it.
C4_FiredOnceAndRemoved ==
    \A l \in FireDone : notified[l].n = 1 /\ l \notin LabelsInTables

C6_JobIdsUnique ==
    \A i, j \in DOMAIN jobIds : i # j => jobIds[i] # jobIds[j]

\* C7: a timer that set_timer put on the fallback path is recorded with
\* origin kind "fallback", fires, and is listed and can be cancelled under
\* the TimerId that set_timer returned.
C7_FallbackUsableById ==
    \A l \in DOMAIN issued :
        (issued[l].kind = "fallback" /\ issued[l].run = run) =>
            /\ (l \notin cancelled /\ now > issued[l].fire)
                   => (Fired(l) \/ \E th \in fbThreads : th.name = l)
            /\ l \in PendingLabels =>
                   /\ issued[l].t_id \in DOMAIN tmTimers
                   /\ tmTimers[issued[l].t_id].type = "fallback"
                   /\ TimerManager_cancel_timer(tmTimers, fbTimers, jobstore,
                                                schedAvail, issued[l].t_id).ret
                   /\ (tmRet.op = "list" /\ issued[l].fire > now) =>
                          \E i \in DOMAIN tmList :
                              tmList[i].id = issued[l].t_id /\ tmList[i].name = l

\* C8: list_timers() returns exactly one entry per pending timer, under the
\* TimerId that set_timer returned for it, whichever kind backs it.
C8_ListMatchesPending ==
    tmRet.op = "list" =>
        /\ \A l \in {p \in PendingLabels : issued[p].fire > now} :
               Cardinality({i \in DOMAIN tmList : tmList[i].name = l}) = 1
        /\ \A i \in DOMAIN tmList :
               /\ tmList[i].name \in PendingLabels
               /\ tmList[i].id = issued[tmList[i].name].t_id

\* C9: list_timers() returns no entry whose remaining time is <= 0.
C9_ListOnlyUnexpired ==
    tmRet.op = "list" => \A i \in DOMAIN tmList : tmList[i].remaining > 0

\* C10: cancel_timer(id) returns False for an id set_timer never returned
\* and for an id it has cancelled before, and True for a pending timer, of
\* either origin kind.
C10_CancelIdempotent ==
    tmRet.op = "cancel" =>
        /\ ~tmRet.known => ~tmRet.val
        /\ tmRet.pending => tmRet.val
        /\ tmRet.again => ~tmRet.val

\* a repeated cancel has returned False after a durable and a fallback timer
\* were each cancelled once
C10_witness ==
    /\ tmRet.op = "cancel" /\ tmRet.again /\ ~tmRet.val
    /\ \E l \in cancelled : issued[l].kind = "aps"
    /\ \E l \in cancelled : issued[l].kind = "fallback"

RECURSIVE SumSeq(_)
SumSeq(q) == IF q = <<>> THEN 0 ELSE Head(q) + SumSeq(Tail(q))

\* C11: start() from Stopped resumes from the banked elapsed time: what
\* stop() returns is the sum of all the intervals run since the last reset,
\* not the length of the last one. (Stated for the runs in which every
\* snapshot write succeeded, so that a restart reloads what was in memory.)
C11_ElapsedAccumulates ==
    (~swFaults /\ swRet.op = "stop") => swRet.val = SumSeq(swIntervals)

\* start, stop, start, stop with time passing in both intervals
C11_witness ==
    /\ ~swFaults /\ swRet.op = "stop" /\ ~sw.running
    /\ Len(swIntervals) = 2 /\ swIntervals[1] > 0 /\ swIntervals[2] > 0

\* what a new process has loaded, while the snapshot it read is on disk
C12_Load ==
    (swRet.op = "init" /\ swFile.kind = "json") =>
        /\ sw.running = swFile.data.running
        /\ sw.start_time = swFile.data.start_time
        /\ IF swFile.data.running
           THEN get_time(sw, now) = now - swFile.data.start_time
           ELSE /\ sw.elapsed_time = swFile.data.elapsed_time
                /\ get_time(sw, now) = swFile.data.elapsed_time

\* stop() as the first call after a load that found Running
C12_Stop ==
    (/\ swRet.op = "init" /\ swFile.kind = "json" /\ swFile.data.running
     /\ swRet'.op = "stop")
        => swRet'.val = now - swFile.data.start_time

\* C12: a restart with a Running snapshot gives a running stopwatch with the
\* same start_time, get_time() returns now - start_time as time goes on, and
\* the next stop() returns that value; a Stopped snapshot gives back its
\* elapsed_time unchanged.
C12_RestartKeepsRunning == []C12_Load /\ [][C12_Stop]_vars

\* a restart found Running and the time since the start is being counted
C12_witness ==
    /\ swRet.op = "init" /\ swFile.kind = "json" /\ swFile.data.running
    /\ sw.running /\ get_time(sw, now) > 0

\* C13: start() while running returns the failure flag, stop() while stopped
\* returns the stored elapsed_time, and neither changes the fields or the
\* snapshot file; get_time() never changes them.
C13_InvalidCallsChangeNothing ==
    [][/\ (swOps' = swOps + 1 /\ swRet'.op = "start" /\ sw.running)
            => (swRet'.val = 0 /\ sw' = sw /\ swFile' = swFile)
       /\ (swOps' = swOps + 1 /\ swRet'.op = "stop" /\ ~sw.running)
            => (swRet'.val = sw.elapsed_time /\ sw' = sw /\ swFile' = swFile)
       /\ (swOps' = swOps + 1 /\ swRet'.op = "get_time")
            => (sw' = sw /\ swFile' = swFile)]_vars

\* start() has been refused on a running stopwatch that had run for a while
C13_witness ==
    swRet.op = "start" /\ swRet.val = 0 /\ sw.running /\ get_time(sw, now) > 0

\* what holds of every call of get_response at every moment
C14_Bounded ==
    \A c \in Callers :
        /\ aiLoc[c].remote <= 2
        /\ aiLoc[c].okAt # 0 => aiLoc[c].remote = aiLoc[c].okAt
        /\ aiPc[c] = "done" =>
             /\ aiLoc[c].ret \in {Unavailable, Apology, Answer(aiLoc[c].query)}
             /\ aiLoc[c].ret = Answer(aiLoc[c].query) <=> aiLoc[c].okAt # 0
             /\ aiLoc[c].ret = Apology <=> (aiLoc[c].okAt = 0 /\ aiLoc[c].remote = 2)
             /\ aiLoc[c].ret = Unavailable <=> aiLoc[c].remote = 0

\* C14: get_response calls the remote service at most 2 times for a query,
\* not again after a call that succeeded, returns the apology when both
\* calls failed, and every call returns.
C14_BoundedRetry ==
    /\ []C14_Bounded
    /\ \A c \in Callers : (aiPc[c] = "136") ~> (aiPc[c] = "done")

\* both attempts of a call failed and it returned the apology
C14_witness ==
    \E c \in Callers :
        aiPc[c] = "done" /\ aiLoc[c].remote = 2 /\ aiLoc[c].okAt = 0 /\ aiLoc[c].ret = Apology

\* one call of get_response by a single caller: a step of SpecAI that makes it
C15_Step ==
    aiCalls' = aiCalls + 1 =>
        IF aiRet'.ret = Answer(aiRet'.query)
        THEN aiContext' = LastN(aiContext \o <<UserMsg(aiRet'.query), AssistantMsg(aiRet'.query)>>,
                                12)
        ELSE aiContext' = aiContext

\* C15: the context never holds more than 12 messages; a call that is answered
\* appends the (query, reply) pair and drops the oldest messages beyond 12, a
\* call that is not answered leaves the context as it was.
C15_ContextBounded == [](Len(aiContext) <= 12) /\ [][C15_Step]_vars

\* a call was answered with a full context: the oldest pair has been dropped
C15_witness ==
    /\ aiRet.ret = Answer(aiRet.query)
    /\ Len(aiContext) = 12
    /\ aiContext[1].content = aiRet.query - 5

\* the context is made of whole pairs: each user query directly followed by
\* the reply to it
WellPaired(ctx) ==
    /\ Len(ctx) % 2 = 0
    /\ \A i \in 1..Len(ctx) :
         IF i % 2 = 1
         THEN ctx[i].role = "user" /\ ctx[i + 1] = AssistantMsg(ctx[i].content)
         ELSE ctx[i].role = "assistant"

\* the queries whose pair is in the context
Kept(ctx) == {ctx[i].content : i \in {j \in 1..Len(ctx) : ctx[j].role = "user"}}

\* C16: when the concurrent get_response calls have returned, every user
\* query in the context is directly followed by its own reply, and the pair
\* of every answered query is there unless newer pairs have pushed it out of
\* the last 12 messages.
C16_ContextPairsKept ==
    (\A c \in Callers : aiPc[c] \in {"idle", "done"}) =>
        /\ WellPaired(aiContext)
        /\ Len(aiContext) = IF 2 * Cardinality(aiServed) > 12 THEN 12
                            ELSE 2 * Cardinality(aiServed)
        /\ Kept(aiContext) \subseteq aiServed

\* C17: the AI Gateway is invoked only for an utterance classified `unknown`
\* whose local fallbacks (canned Q/A, math) gave no answer, on the voice path
\* and on the web path alike; never for any other intent.
C17_AiOnlyAfterLocalFallbacks ==
    dpOut.ai > 0 =>
        /\ dpIn.intent = "unknown"
        /\ ~dpIn.canned
        /\ ~(dpIn.math /\ dpIn.value)

\* C18: on the voice path an `unknown` utterance gets the canned answer if it
\* has one, otherwise the evaluated value if it looks numeric and evaluates,
\* and otherwise goes to the AI Gateway exactly once.
C18_CannedThenMathThenAi ==
    (dpIn.path = "voice" /\ dpIn.intent = "unknown") =>
        /\ dpIn.canned => (dpOut.spoken = <<Msg("canned")>> /\ dpOut.ai = 0)
        /\ (~dpIn.canned /\ dpIn.math /\ dpIn.value) =>
               (dpOut.spoken = <<Msg("result")>> /\ dpOut.ai = 0)
        /\ (~dpIn.canned /\ ~(dpIn.math /\ dpIn.value)) => dpOut.ai = 1

\* C20: when a handler raises, nothing propagates out of execute_command or
\* process_command, the voice path speaks the error message, and the web
\* path returns a Response with success false and intent 'error'.
C20_HandlerFailureBecomesErrorResponse ==
    dpIn.handler = "raises" =>
        /\ ~dpOut.raised
        /\ dpIn.path = "voice" => dpOut.spoken = <<Msg("error_executing")>>
        /\ dpIn.path = "web" =>
               (~dpOut.response.success /\ dpOut.response.intent = "error")

\* what exit may not touch: the scheduler and every table of timers
VaJobs == <<va.scheduler, va.alive, schedAvail, jobstore, tmTimers, fbTimers, fbThreads>>

C19_ExitStep ==
    (~vaHist.exited /\ vaHist'.exited) =>
        (VaJobs' = VaJobs /\ ~va'.is_listening /\ va'.keep_running)

C19_OnlyTerminateEnds ==
    (va.alive # va'.alive \/ va.scheduler # va'.scheduler) =>
        (~vaHist.terminated /\ vaHist'.terminated)

C19_PendingFires ==
    vaHist.exited =>
        /\ ~vaHist.terminated => (va.alive /\ va.scheduler # "shutdown")
        /\ \A l \in vaHist.labels :
               (~vaHist.terminated /\ now > issued[l].fire) => Fired(l)

\* C19: the exit command only stops input capture: it leaves the scheduler
\* and every scheduled timer as they were, so that every job pending at exit
\* still fires; only terminate shuts the scheduler down and ends the process.
C19_ExitKeepsJobs ==
    /\ []C19_PendingFires
    /\ [][C19_ExitStep]_vars
    /\ [][C19_OnlyTerminateEnds]_vars

\* a timer that was pending when exit was commanded has fired afterwards,
\* in the process that no longer listens
C19_witness ==
    /\ vaHist.exited
    /\ ~vaHist.terminated
    /\ ~va.is_listening
    /\ \E l \in vaHist.labels : Fired(l) /\ notified[l].at > vaHist.at

\* the order of the pattern table as the specification gives it
TableOrder ==
    <<"time", "date", "greeting", "exit", "help", "weather", "timer", "alarm",
      "stopwatch", "app", "search", "system", "calculate">>

\* the places in the table of the intents a pattern of which matches
MatchingEntries(u) ==
    {i \in 1..Len(TableOrder) :
        TableOrder[i] \in DOMAIN command_patterns /\ PatternHit(TableOrder[i], u)}

\* C21: recognize_command returns the intent that comes first in the table
\* among those a pattern of which matches the utterance, and `unknown` when
\* none matches and the spaCy pass is absent.
C21_FirstMatchWins ==
    rcOut # "none" =>
        LET m == MatchingEntries(rcHeard) IN
        /\ m # {} => \E i \in m : rcOut = TableOrder[i] /\ \A j \in m : i <= j
        /\ (m = {} /\ ~rcNlp) => rcOut = "unknown"

\* an utterance matching a pattern of `calculate` and one of an earlier
\* entry has been classified
C21_witness ==
    /\ rcOut # "none"
    /\ Cardinality(MatchingEntries(rcHeard)) >= 2
    /\ PatternHit("calculate", rcHeard)

\* the keyword lists of the heuristic pass in their priority order
KeywordLists ==
    << [intent |-> "time", words |-> {"time", "clock", "hour", "minute"}],
       [intent |-> "date", words |-> {"date", "day", "today", "calendar"}],
       [intent |-> "calculate", words |-> {"calculate", "compute", "add", "subtract",
                                           "multiply", "divide", "plus", "minus", "times"}],
       [intent |-> "system", words |-> {"battery", "memory", "disk", "storage", "system"}],
       [intent |-> "weather", words |-> {"weather", "temperature", "forecast", "rain",
                                         "sunny", "cloudy"}],
       [intent |-> "app", words |-> {"open", "launch", "start", "run"}] >>

ListsHit(u) == {i \in 1..Len(KeywordLists) : KeywordLists[i].words \cap TokensAndLemmas(u) # {}}

\* a digit next to an arithmetic operator, in either order
DigitNextToOperator(u) == \E i \in 1..Len(u) : u[i] \in {"5+3", "-5"}

\* C22: when no pattern matches and the spaCy pass is there, an utterance
\* with a digit next to an operator is `calculate`, and otherwise the result
\* is the intent of the first keyword list, in the order time, date,
\* calculate, system, weather, app, that has a token of the utterance.
C22_KeywordPriority ==
    (rcOut # "none" /\ rcNlp /\ rcHeard # <<>> /\ MatchingEntries(rcHeard) = {}) =>
        IF DigitNextToOperator(rcHeard) THEN rcOut = "calculate"
        ELSE LET h == ListsHit(rcHeard) IN
             h # {} => \E i \in h : rcOut = KeywordLists[i].intent /\ \A j \in h : i <= j

\* C23: of two timers of one run with distinct fire times, neither of them
\* cancelled, the one with the earlier fire time is notified first, whatever
\* the order of creation and the origin kind of each.
C23_FireTimeOrder ==
    \A l1, l2 \in DOMAIN issued :
        (/\ issued[l1].fire < issued[l2].fire
         /\ issued[l1].run = issued[l2].run
         /\ l1 \notin cancelled
         /\ Fired(l2)) =>
            (Fired(l1) /\ notified[l1].at < notified[l2].at)

\* a timer created later with the earlier fire time was notified first, and
\* the two are of different origin kinds
C23_witness ==
    \E l1, l2 \in DOMAIN issued :
        /\ l1 > l2
        /\ issued[l1].fire < issued[l2].fire
        /\ issued[l1].kind # issued[l2].kind
        /\ Fired(l1) /\ Fired(l2)
        /\ notified[l1].at < notified[l2].at

\* the next time the clock shows the target time of day, strictly after now
NextOccurrence(nowTicks, target) ==
    IF TicksOf(target) > nowTicks THEN TicksOf(target) ELSE TicksOf(target) + DayTicks

\* C24: set_alarm schedules a job whose delay is strictly positive and at
\* most 24 hours and whose fire time is the nearest future occurrence of
\* the target time of day.
C24_AlarmNextOccurrence ==
    alIn # NoAlarm =>
        /\ alOut.duration > 0
        /\ alOut.duration <= DaySeconds
        /\ alOut.run_at = NextOccurrence(alIn.now, alIn.target)

\* C24, amended: the delay is a whole number of seconds from 0 to 24 hours,
\* and the job fires less than a second before the nearest future occurrence
\* of the target time of day, exactly at it when the clock showed a whole
\* second.
C24_WithinASecond ==
    alIn # NoAlarm =>
        LET next == NextOccurrence(alIn.now, alIn.target) IN
        /\ alOut.duration >= 0
        /\ alOut.duration <= DaySeconds
        /\ alOut.run_at <= next
        /\ next - alOut.run_at < TicksPerSecond
        /\ alIn.now % TicksPerSecond = 0 => (alOut.run_at = next /\ alOut.duration > 0)

\* an alarm for a time of day already past, asked between two seconds, was
\* scheduled for tomorrow, a part of a second early
C24_witness ==
    /\ alIn # NoAlarm
    /\ alIn.now > TicksOf(alIn.target)
    /\ alIn.now % TicksPerSecond # 0
    /\ alOut.run_at > DayTicks
    /\ alOut.run_at < NextOccurrence(alIn.now, alIn.target)

\* the characters the specification allows in the text given to eval
AllowSet == {"0", "1", "2", "3", "4", "5", "6", "7", "8", "9",
             ".", "+", "-", "*", "/", "(", ")", " "}

\* C25: the text handed to eval has only characters of the allow-set, and
\* the environment of the evaluation exposes no name but sqrt, in the voice
\* variant and in the web variant.
C25_EvaluatorSandboxed ==
    evOut.evaluated =>
        /\ \A i \in 1..Len(evOut.handed) : evOut.handed[i] \in AllowSet
        /\ evOut.env \subseteq {"sqrt"}

NumOf(w) == CASE w = "0" -> 0 [] w = "2" -> 2 [] w = "4" -> 4 [] OTHER -> 0

\* the evaluation gave the value n/d
Gives(n, d) ==
    /\ evOut.ret.ok
    /\ ~evOut.ret.v.beyond
    /\ evOut.ret.v.n * d = n * evOut.ret.v.d

IsPhrase(shape) ==
    /\ Len(evHeard) = Len(shape)
    /\ \A i \in 1..Len(shape) : IF shape[i] = "A" \/ shape[i] = "B"
                                THEN evHeard[i] \in EvNumbers ELSE evHeard[i] = shape[i]

\* C26: in the voice variant each phrase of the table evaluates to its
\* arithmetic value, and an utterance with no digit and a division by zero
\* give a failure without raising.
C26_PhrasesEvaluate ==
    evOut.variant = "voice" =>
        LET a == IF evHeard # <<>> THEN NumOf(evHeard[1]) ELSE 0
            last == IF evHeard # <<>> THEN NumOf(evHeard[Len(evHeard)]) ELSE 0
        IN /\ ~evOut.raised
           /\ IsPhrase(<<"A", "plus", "B">>) => Gives(a + last, 1)
           /\ IsPhrase(<<"A", "minus", "B">>) => Gives(a - last, 1)
           /\ IsPhrase(<<"A", "times", "B">>) => Gives(a * last, 1)
           /\ (IsPhrase(<<"A", "divided", "by", "B">>) /\ last # 0) => Gives(a, last)
           /\ (IsPhrase(<<"A", "divided", "by", "B">>) /\ last = 0) => ~evOut.ret.ok
           /\ IsPhrase(<<"A", "squared">>) => Gives(a * a, 1)
           /\ IsPhrase(<<"A", "cubed">>) => Gives(a * a * a, 1)
           /\ IsPhrase(<<"square", "root", "of", "A">>) => Gives(last \div 2, 1)
           /\ IsPhrase(<<"A", "percent", "of", "B">>) => Gives(a * last, 100)
           /\ (\A i \in 1..Len(evHeard) : evHeard[i] \notin EvNumbers) => ~evOut.ret.ok

\* C27: after exit, as long as the process lives, the utterance 'terminate
\* assistant' can be received, and once it has been received terminate()
\* has run.
C27_TerminateByVoice ==
    /\ (vaHist.exited /\ va.alive) => VaTakesCommands
    /\ vaSaid.heard => vaHist.terminated

C28_Step ==
    \A l \in cancelled :
        IF l \in DOMAIN notified
        THEN notified'[l].n = notified[l].n
        ELSE l \notin DOMAIN notified'

\* C28: once cancel_timer has returned True for a timer, no step delivers
\* the notification of that timer, whichever thread takes the step.
C28_NoNotifyAfterCancel == [][C28_Step]_vars

SpeakRestored ==
    (\A r \in Requests : ~InFlight(r)) => wsSpeak = VoiceAssistant_speak

NotDiverted ==
    \A r \in Requests :
        /\ wsReq[r].response # TimerText
        /\ \A i \in 1 .. Len(wsResponses[r]) : wsResponses[r][i] # TimerText

\* C29: whenever no web request is in flight assistant.speak is the original
\* method again, and no timer notification has gone into the list a web
\* response is taken from, whatever the interleaving of requests and firings.
C29_SpeakSwapScoped == SpeakRestored /\ NotDiverted

LastSessionKept ==
    \A u \in Users :
        SessionsOf(csSessions, u) # {} => SessionsOf(csSessions', u) # {}

RefusedDeleteChangesNothing ==
    \A w \in Workers :
        (/\ csReq[w].pc # "done"
         /\ csReq'[w].pc = "done"
         /\ csReq'[w].op = "delete"
         /\ csReq'[w].status # 200) => csSessions' = csSessions

\* C30: no step of a create or delete request takes a user who has a chat
\* session to having none, and the step that refuses a delete leaves the
\* table as it was.
C30_LastSessionKept == [][LastSessionKept /\ RefusedDeleteChangesNothing]_vars

\* C1: whenever no stopwatch operation is in progress, the snapshot on disk
\* {running, start_epoch, elapsed} equals the stopwatch state in memory
\* (an absent file stands for the state a fresh process starts in). Stated
\* for the runs in which every snapshot write succeeded: the equality fails
\* there already, and a write that raises breaks it as well.
C1_DiskEqualsMemory == ~swFaults => safe_json_read(swFile).data = sw

====
